---- MODULE Spec2Model ----
(***************************************************************************)
(* Model of the analysis core of ai-search-intelligence: the gap           *)
(* identification engine (analysis/gap_identification.py) and the pattern  *)
(* recognition engine (analysis/pattern_recognition.py).                   *)
(*                                                                         *)
(* One behaviour is one interpreter process that makes one call of a       *)
(* public entry point (and, for identify_content_gaps, possibly the same   *)
(* call once more).  The arguments of the call are fixed by Init; every    *)
(* sub-scan of the entry point is one step of the call.                    *)
(*                                                                         *)
(* Numbers: Python floats are modelled as exact rationals [n, d] in lowest *)
(* terms.  Strings are TLA+ strings; substring tests, lower(), split() and *)
(* the regular expressions are computed character by character.            *)
(***************************************************************************)
EXTENDS Integers, Sequences, FiniteSets, TLC

\* ------------------------------------------------------------------------
\* Bounds of the model
\* ------------------------------------------------------------------------
\* longest citations list of the exhaustive input family
MaxCitations == 2
\* longest tracked_queries list of the exhaustive input family
MaxTracked == 2
\* longest citations list of the two-block input family
MaxBlock == 5
\* number of interpreter hash seeds (PYTHONHASHSEED values) considered
NumHashSeeds == 2
\* longest citations list of the exhaustive input family of the pattern engine
MaxPatternCitations == 3
\* most records added to a day of the one-week citations lists
MaxExtra == 2
\* number of distinct texts the clustering outcome labels freely
MaxLabelled == 4
\* longest citations list of the competitor analysis input family
MaxCompetitorCitations == 2
\* most parameters in the query string of a url
MaxParams == 2
\* longest pattern list passed to generate_pattern_insights
MaxInsightPatterns == 2
\* longest gap list of the exhaustive input family of the gap report
MaxReportGaps == 2
\* number of equal gaps at the head of the long gap lists of the gap report
LongReport == 10
\* most sources of the AI overview of a SERP result
MaxAiSources == 2
\* most related questions of a SERP result
MaxQuestions == 2
\* most additional sources of the knowledge graph of a SERP result
MaxKgSources == 9
\* longest organic result list of the exhaustive SERP input family
MaxOrganic == 2
\* how far below 0 the lowest reported organic position lies
MaxOrganicOffset == 6
\* how deep the model follows the nested calls of PerplexityCollector
MaxDepth == 3

\* ------------------------------------------------------------------------
\* Exact rational arithmetic
\* ------------------------------------------------------------------------
Abs(x) == IF x < 0 THEN -x ELSE x

RECURSIVE GCD(_, _)
GCD(a, b) == IF b = 0 THEN a ELSE GCD(b, a % b)

\* the rational n/d (d > 0) in lowest terms
Rat(n, d) == LET g == GCD(Abs(n), d) IN [n |-> n \div g, d |-> d \div g]

RAdd(a, b) == Rat(a.n * b.d + b.n * a.d, a.d * b.d)
RSub(a, b) == Rat(a.n * b.d - b.n * a.d, a.d * b.d)
RMul(a, b) == Rat(a.n * b.n, a.d * b.d)
RLt(a, b) == a.n * b.d < b.n * a.d
RLe(a, b) == a.n * b.d <= b.n * a.d
RMin(a, b) == IF RLe(a, b) THEN a ELSE b
RZero == Rat(0, 1)
ROne == Rat(1, 1)

RECURSIVE SumSeq(_)
SumSeq(s) == IF s = <<>> THEN 0 ELSE Head(s) + SumSeq(Tail(s))

RECURSIVE RSumSeq(_)
RSumSeq(s) == IF s = <<>> THEN RZero ELSE RAdd(Head(s), RSumSeq(Tail(s)))

\* ------------------------------------------------------------------------
\* Sequences
\* ------------------------------------------------------------------------
RECURSIVE Flatten(_)
Flatten(ss) == IF ss = <<>> THEN <<>> ELSE Head(ss) \o Flatten(Tail(ss))

Range(s) == {s[i] : i \in DOMAIN s}

\* s as an explicit tuple
Tuple(s) == s \o <<>>

\* the elements s[i] with keep[i], order preserved
RECURSIVE SelectFrom(_, _, _)
SelectFrom(s, keep, i) ==
    IF i > Len(s) THEN <<>>
    ELSE (IF keep[i] THEN <<s[i]>> ELSE <<>>) \o SelectFrom(s, keep, i + 1)

SelectIdx(s, keep) == SelectFrom(s, keep, 1)

\* pandas Series.unique(): the distinct values in order of first appearance
RECURSIVE Unique(_)
Unique(s) ==
    IF s = <<>> THEN <<>>
    ELSE LET init == Unique(SubSeq(s, 1, Len(s) - 1))
             last == s[Len(s)]
         IN IF last \in Range(init) THEN init ELSE Append(init, last)

\* All sequences over S of length at most n
SeqsUpTo(S, n) == UNION {[1..k -> S] : k \in 0..n}

\* k copies of x
Copies(x, k) == [i \in 1..k |-> x]

\* ------------------------------------------------------------------------
\* Strings (Python str): substring test, lower(), split(), comparison, re
\* ------------------------------------------------------------------------
Char(s, i) == SubSeq(s, i, i)

\* Python: kw in s
Contains(s, kw) ==
    \E i \in 1..(Len(s) - Len(kw) + 1) : SubSeq(s, i, i + Len(kw) - 1) = kw

\* Python: any(word in s for word in kws)
AnyIn(s, kws) == \E kw \in kws : Contains(s, kw)

UpperCase == "ABCDEFGHIJKLMNOPQRSTUVWXYZ"
LowerCase == "abcdefghijklmnopqrstuvwxyz"

RECURSIVE IndexIn(_, _, _)
IndexIn(alphabet, c, i) ==
    IF i > Len(alphabet) THEN 0
    ELSE IF Char(alphabet, i) = c THEN i
    ELSE IndexIn(alphabet, c, i + 1)

LowerChar(c) ==
    LET i == IndexIn(UpperCase, c, 1)
    IN IF i = 0 THEN c ELSE Char(LowerCase, i)

\* Python: s.lower()
RECURSIVE Lower(_)
Lower(s) == IF s = "" THEN "" ELSE LowerChar(Char(s, 1)) \o Lower(SubSeq(s, 2, Len(s)))

\* Python: s.split()  (whitespace is the blank)
RECURSIVE SplitFrom(_, _, _)
SplitFrom(s, i, cur) ==
    IF i > Len(s) THEN (IF cur = "" THEN <<>> ELSE <<cur>>)
    ELSE IF Char(s, i) = " "
         THEN (IF cur = "" THEN <<>> ELSE <<cur>>) \o SplitFrom(s, i + 1, "")
         ELSE SplitFrom(s, i + 1, cur \o Char(s, i))

Split(s) == SplitFrom(s, 1, "")

\* Python: ' '.join(words)
RECURSIVE Join(_)
Join(words) ==
    IF words = <<>> THEN ""
    ELSE IF Len(words) = 1 THEN words[1]
    ELSE words[1] \o " " \o Join(Tail(words))

\* the characters of the model's strings in code point order
Alphabet == " .0123456789?ABCDEFGHIJKLMNOPQRSTUVWXYZ_abcdefghijklmnopqrstuvwxyz"

Code(c) == IndexIn(Alphabet, c, 1)

\* Python: a < b on str (lexicographic by code point)
RECURSIVE StrLess(_, _)
StrLess(a, b) ==
    IF b = "" THEN FALSE
    ELSE IF a = "" THEN TRUE
    ELSE IF Char(a, 1) = Char(b, 1)
         THEN StrLess(SubSeq(a, 2, Len(a)), SubSeq(b, 2, Len(b)))
         ELSE Code(Char(a, 1)) < Code(Char(b, 1))

\* the strings of the finite set S in ascending order (a groupby's key order)
RECURSIVE SortedStrings(_)
SortedStrings(S) ==
    IF S = {} THEN <<>>
    ELSE LET m == CHOOSE x \in S : \A y \in S : x = y \/ StrLess(x, y)
         IN <<m>> \o SortedStrings(S \ {m})

\* re: \w
IsWordChar(c) == c \notin {" ", ".", "?"}

\* re: \b holds between the characters i-1 and i of s
Boundary(s, i) ==
    LET before == i > 1 /\ IsWordChar(Char(s, i - 1))
        after == i <= Len(s) /\ IsWordChar(Char(s, i))
    IN before # after

\* re.search(r'\bw\b', s)
MatchWord(s, w) ==
    \E i \in 1..(Len(s) - Len(w) + 1) :
        /\ SubSeq(s, i, i + Len(w) - 1) = w
        /\ Boundary(s, i)
        /\ Boundary(s, i + Len(w))

\* re.search(r'\bw1\s+w2\b', s)
MatchTwoWords(s, w1, w2) ==
    \E i \in 1..Len(s) : \E j \in (i + Len(w1) + 1)..(Len(s) - Len(w2) + 1) :
        /\ SubSeq(s, i, i + Len(w1) - 1) = w1
        /\ Boundary(s, i)
        /\ \A k \in (i + Len(w1))..(j - 1) : Char(s, k) = " "
        /\ SubSeq(s, j, j + Len(w2) - 1) = w2
        /\ Boundary(s, j + Len(w2))

\* re: the tokens of TfidfVectorizer's default token_pattern (?u)\b\w\w+\b
RECURSIVE TokensFrom(_, _, _)
TokensFrom(s, i, cur) ==
    LET out == IF Len(cur) >= 2 THEN <<cur>> ELSE <<>>
    IN IF i > Len(s) THEN out
       ELSE IF IsWordChar(Char(s, i)) THEN TokensFrom(s, i + 1, cur \o Char(s, i))
       ELSE out \o TokensFrom(s, i + 1, "")

Tokens(s) == TokensFrom(s, 1, "")

\* ------------------------------------------------------------------------
\* Input data: queries, domains, citation records
\* ------------------------------------------------------------------------
QA == "best seo tools"
QB == "seo price"
QC == "what is seo"

DomA == "a.com"
DomB == "b.com"

\* the keys a citation dict can carry
AllColumns ==
    {"engine", "query", "position", "citation_type", "source_domain",
     "prominence_score", "metadata", "created_at"}

\* A citation dict.  prominence_score is in hundredths (0..100 is [0,1]);
\* created_at is a day number; metadata is the set of its scalar entries as
\* "key:value" tokens.
Citation(q, dom, prom, eng, ctype, pos, day, meta) ==
    [query |-> q, source_domain |-> dom, prominence_score |-> prom,
     engine |-> eng, citation_type |-> ctype, position |-> pos,
     created_at |-> day, metadata |-> meta]

\* a record whose fields outside the gap engine's reads are fixed
GapCitation(q, dom, prom) ==
    Citation(q, dom, prom, "google", "organic", 1, 1, {})

Prominence(c) == Rat(c.prominence_score, 100)

\* ------------------------------------------------------------------------
\* gap_identification.py: helpers
\* ------------------------------------------------------------------------
EstimateSearchVolume(query) ==
    LET query_lower == Lower(query)
        words == Len(Split(query))
    IN IF AnyIn(query_lower, {"how to", "tutorial"}) THEN 2000
       ELSE IF AnyIn(query_lower, {"best", "top", "review"}) THEN 1500
       ELSE IF words > 6 THEN 300
       ELSE IF words <= 2 THEN 3000
       ELSE 1000

EstimateContentEffort(query) ==
    LET query_lower == Lower(query)
    IN IF AnyIn(query_lower, {"api", "code", "programming", "technical",
                              "advanced", "enterprise"}) THEN "high"
       ELSE IF AnyIn(query_lower, {"best", "comparison", "review", "vs",
                                   "analysis"}) THEN "high"
       ELSE IF AnyIn(query_lower, {"how to", "tutorial", "guide", "step"})
            THEN "medium"
       ELSE IF AnyIn(query_lower, {"what is", "definition", "meaning"})
            THEN "low"
       ELSE "medium"

\* question_patterns, in dict order; the first matching type wins
QuestionType(query_lower) ==
    IF MatchTwoWords(query_lower, "what", "is") THEN "what_is"
    ELSE IF \/ MatchTwoWords(query_lower, "how", "to")
            \/ MatchTwoWords(query_lower, "how", "do")
            \/ MatchTwoWords(query_lower, "how", "can") THEN "how_to"
    ELSE IF MatchWord(query_lower, "why") THEN "why"
    ELSE IF MatchWord(query_lower, "when") THEN "when"
    ELSE IF MatchWord(query_lower, "where") THEN "where"
    ELSE IF MatchWord(query_lower, "which") THEN "which"
    ELSE IF MatchWord(query_lower, "best") THEN "best"
    ELSE IF MatchWord(query_lower, "vs") \/ MatchWord(query_lower, "versus")
         THEN "vs_comparison"
    ELSE "general"

QuestionWords ==
    {"what", "is", "how", "to", "do", "can", "why", "when", "where", "which",
     "the", "a", "an"}

\* the topic key of a tracked query: its first 3 content words ("" if none)
TopicOf(query) ==
    LET words == Split(Lower(query))
        content_words ==
            SelectIdx(words, [i \in 1..Len(words) |-> words[i] \notin QuestionWords])
    IN Join(SubSeq(content_words, 1, IF Len(content_words) < 3
                                     THEN Len(content_words) ELSE 3))

GenerateQuestionVariation(topic, question_type) ==
    CASE question_type = "what_is" -> "What is " \o topic \o "?"
      [] question_type = "how_to" -> "How to " \o topic
      [] question_type = "best" -> "Best " \o topic
      [] question_type = "why" -> "Why " \o topic
      [] question_type = "when" -> "When " \o topic
      [] question_type = "where" -> "Where " \o topic
      [] question_type = "which" -> "Which " \o topic
      [] question_type = "vs_comparison" -> topic \o " vs alternatives"
      [] OTHER -> topic

\* sklearn's English stop words among the words of the model's queries
EnglishStopWords ==
    {"what", "is", "how", "to", "do", "can", "why", "when", "where", "which",
     "the", "a", "an", "and", "or", "but", "in", "on", "at", "by", "for",
     "with", "about"}

\* TfidfVectorizer(stop_words='english').fit_transform(texts) raises
\* ValueError (empty vocabulary) when no token of any text survives
VectorizerRaises(texts) ==
    \A i \in DOMAIN texts :
        \A w \in Range(Tokens(Lower(texts[i]))) : w \in EnglishStopWords

\* ------------------------------------------------------------------------
\* State
\* ------------------------------------------------------------------------
VARIABLES
    entry,               \* the public entry point the caller invokes
    citations,           \* argument: the list of citation dicts
    columns,             \* the keys the citation dicts carry (df.columns)
    tracked_queries,     \* argument: the tracked query strings
    competitor_domains,  \* argument: the competitor domains
    hashSeed,            \* the interpreter's str hash seed, fixed per process
    seeded_labels,       \* what KMeans(random_state=42).fit_predict yields on
                         \* this input: "raise" or a labelling of the texts
    calls,               \* how many times the caller makes the call
    argument,            \* the argument of a report, insights or normalize call
    analyzer,            \* the fields of the two analyzer instances (self.*)
    other,               \* position of another caller's concurrent call on
                         \* the same analyzer instances ("none": no such call)
    call_no,             \* the call in progress
    pc,                  \* position inside the call
    next_domain,         \* analyze_competitor_patterns: the loop's position
    gaps,                \* identify_content_gaps: the local list gaps
    patterns,            \* analyze_citation_patterns: the local list patterns
    result,              \* the list the call returned (when pc = "done")
    first_result,        \* the list the first call returned
    frames               \* PerplexityCollector: the calls of collect_citations
                         \* in progress, the outermost first

vars ==
    <<entry, citations, columns, tracked_queries, competitor_domains, hashSeed,
      seeded_labels, calls, argument, analyzer, other, call_no, pc, next_domain,
      gaps, patterns, result, first_result, frames>>

\* the arguments and everything else that no statement of the two analysis
\* entry points assigns: the only assignments to self.* are in __init__
inputs ==
    <<entry, citations, columns, tracked_queries, competitor_domains, hashSeed,
      seeded_labels, calls, argument, analyzer, other, next_domain>>

\* the value __init__ gives self.min_pattern_frequency
MinPatternFrequency == 3

\* CitationPatternAnalyzer.__init__ and ContentGapIdentifier.__init__: the
\* fields of a freshly constructed pair of analyzers (fractions in hundredths)
NewAnalyzers ==
    [min_pattern_frequency |-> MinPatternFrequency, min_pattern_strength |-> 60,
     min_opportunity_score |-> 30, high_opportunity_threshold |-> 70]

\* pd.DataFrame(citations)
DataFrame == [rows |-> citations, columns |-> columns]

\* df[df['query'] == query]
QueryRows(df, query) ==
    SelectIdx(df.rows, [i \in 1..Len(df.rows) |-> df.rows[i].query = query])

Column(rows, field) == [i \in 1..Len(rows) |-> rows[i][field]]

\* hash(s): CPython salts str hashes with a seed drawn once per process; the
\* value is modelled as the pair (seed, s), i.e. without collisions
Hash(s) == <<hashSeed, s>>

\* the order in which a set of question types is iterated depends on the
\* hashes of its members, hence on the seed: the orders of the three
\* high-value types
HighValueOrders ==
    << <<"what_is", "how_to", "best">>, <<"best", "how_to", "what_is">>,
       <<"how_to", "best", "what_is">>, <<"what_is", "best", "how_to">>,
       <<"best", "what_is", "how_to">>, <<"how_to", "what_is", "best">> >>

SetOrder == HighValueOrders[((hashSeed - 1) % Len(HighValueOrders)) + 1]

\* ------------------------------------------------------------------------
\* gap_identification.py: the five finders
\* ------------------------------------------------------------------------
NoCitationsGap(query) ==
    [gap_id |-> <<"no_citations", Hash(query)>>,
     query_text |-> query,
     gap_type |-> "no_citations",
     opportunity_score |-> Rat(8, 10),
     competing_domains |-> <<>>,
     search_volume_estimate |-> EstimateSearchVolume(query),
     difficulty_score |-> Rat(2, 10),
     priority |-> "high",
     estimated_effort |-> EstimateContentEffort(query),
     potential_impact |-> "high"]

\* WeakCitationsGap without the competing domains
WeakCitationsGapNoDomains(df, query) ==
    [gap_id |-> <<"weak_citations", Hash(query)>>,
     query_text |-> query,
     gap_type |-> "weak_citations",
     opportunity_score |-> Rat(7, 10),
     competing_domains |-> <<>>,
     search_volume_estimate |-> EstimateSearchVolume(query),
     difficulty_score |-> Rat(3, 10),
     priority |-> "high",
     estimated_effort |-> EstimateContentEffort(query),
     potential_impact |-> "high"]

WeakCitationsGap(df, query) ==
    [gap_id |-> <<"weak_citations", Hash(query)>>,
     query_text |-> query,
     gap_type |-> "weak_citations",
     opportunity_score |-> Rat(7, 10),
     competing_domains |->
         IF "source_domain" \in df.columns
         THEN Unique(Column(QueryRows(df, query), "source_domain"))
         ELSE <<>>,
     search_volume_estimate |-> EstimateSearchVolume(query),
     difficulty_score |-> Rat(3, 10),
     priority |-> "high",
     estimated_effort |-> EstimateContentEffort(query),
     potential_impact |-> "high"]

\* FindNoCitationGaps with the two tests in the other order: a query without
\* citations falls under citation_count <= 2
FindNoCitationGapsWeakFirst(df, tracked) ==
    IF "query" \notin df.columns THEN <<>>
    ELSE Flatten([i \in 1..Len(tracked) |->
            LET query == tracked[i]
                citation_count == Len(QueryRows(df, query))
            IN IF citation_count <= 2 THEN <<WeakCitationsGap(df, query)>>
               ELSE IF citation_count = 0 THEN <<NoCitationsGap(query)>>
               ELSE <<>>])

FindNoCitationGaps(df, tracked) ==
    IF "query" \notin df.columns THEN <<>>
    ELSE Flatten([i \in 1..Len(tracked) |->
            LET query == tracked[i]
                citation_count == Len(QueryRows(df, query))
            IN IF citation_count = 0 THEN <<NoCitationsGap(query)>>
               ELSE IF citation_count <= 2 THEN <<WeakCitationsGap(df, query)>>
               ELSE <<>>])

\* the mean prominence_score of a non-empty list of rows
MeanProminence(rows) ==
    Rat(SumSeq(Column(rows, "prominence_score")), 100 * Len(rows))

LowProminenceGap(df, query, mean) ==
    [gap_id |-> <<"low_prominence", Hash(query)>>,
     query_text |-> query,
     gap_type |-> "weak_citations",
     opportunity_score |-> RAdd(Rat(6, 10), RSub(Rat(5, 10), mean)),
     competing_domains |->
         IF "source_domain" \in df.columns
         THEN Unique(Column(QueryRows(df, query), "source_domain"))
         ELSE <<>>,
     search_volume_estimate |-> EstimateSearchVolume(query),
     difficulty_score |-> RAdd(Rat(4, 10), RMul(mean, Rat(4, 10))),
     priority |-> "medium",
     estimated_effort |-> EstimateContentEffort(query),
     potential_impact |-> "medium"]

\* FindWeakCitationGaps with mean <= 0.5 in place of mean < 0.5
FindWeakCitationGapsInclusive(df) ==
    IF "prominence_score" \notin df.columns \/ "query" \notin df.columns
    THEN <<>>
    ELSE LET keys == SortedStrings(Range(Column(df.rows, "query")))
         IN Flatten([k \in 1..Len(keys) |->
                LET rows == QueryRows(df, keys[k])
                    mean == MeanProminence(rows)
                IN IF RLe(mean, Rat(5, 10)) /\ Len(rows) >= 2
                   THEN <<LowProminenceGap(df, keys[k], mean)>>
                   ELSE <<>>])

FindWeakCitationGaps(df) ==
    IF "prominence_score" \notin df.columns \/ "query" \notin df.columns
    THEN <<>>
    ELSE LET keys == SortedStrings(Range(Column(df.rows, "query")))
         IN Flatten([k \in 1..Len(keys) |->
                LET rows == QueryRows(df, keys[k])
                    mean == MeanProminence(rows)
                IN IF RLt(mean, Rat(5, 10)) /\ Len(rows) >= 2
                   THEN <<LowProminenceGap(df, keys[k], mean)>>
                   ELSE <<>>])

CompetitorDominatedGap(query, rows, competitor_share) ==
    [gap_id |-> <<"competitor_dominated", Hash(query)>>,
     query_text |-> query,
     gap_type |-> "competitor_dominated",
     opportunity_score |-> RSub(Rat(5, 10), RMul(competitor_share, Rat(2, 10))),
     competing_domains |-> Unique(Column(rows, "source_domain")),
     search_volume_estimate |-> EstimateSearchVolume(query),
     difficulty_score |-> RAdd(Rat(6, 10), RMul(competitor_share, Rat(3, 10))),
     priority |-> IF RLt(Rat(8, 10), competitor_share) THEN "low" ELSE "medium",
     estimated_effort |-> "high",
     potential_impact |->
         IF RLt(competitor_share, Rat(8, 10)) THEN "high" ELSE "medium"]

\* the share of the rows whose source_domain is a lower-cased competitor
CompetitorShare(rows, competitor_domains_lower) ==
    LET competitor_citations ==
            SelectIdx(rows, [i \in 1..Len(rows) |->
                rows[i].source_domain \in Range(competitor_domains_lower)])
    IN Rat(Len(competitor_citations), Len(rows))

\* total_citations < 3: the query is skipped
TooFewCitations(total_citations) == total_citations < 3

\* Dominates with > in place of >=
DominatesStrictly(competitor_share) == RLt(Rat(6, 10), competitor_share)

\* competitor_share >= 0.6: competitors dominate
Dominates(competitor_share) == RLe(Rat(6, 10), competitor_share)

FindCompetitorDominatedGaps(df, competitors) ==
    IF competitors = <<>> \/ "source_domain" \notin df.columns
                          \/ "query" \notin df.columns
    THEN <<>>
    ELSE LET competitor_domains_lower ==
                 [i \in 1..Len(competitors) |-> Lower(competitors[i])]
             queries == Unique(Column(df.rows, "query"))
         IN Flatten([k \in 1..Len(queries) |->
                LET rows == QueryRows(df, queries[k])
                IN IF TooFewCitations(Len(rows)) THEN <<>>
                   ELSE LET share == CompetitorShare(rows, competitor_domains_lower)
                        IN IF Dominates(share)
                           THEN <<CompetitorDominatedGap(queries[k], rows, share)>>
                           ELSE <<>>])

Min(a, b) == IF a <= b THEN a ELSE b
Max(a, b) == IF a >= b THEN a ELSE b

\* n_clusters = min(5, len(tracked_queries) // 4)
TopicClusterCount(tracked) == Min(5, Len(tracked) \div 4)

\* KMeans(n_clusters, random_state=42).fit_predict(X): the centroids are
\* initialised from a generator seeded with 42, so the outcome is a function
\* of X alone (seeded_labels); the state of numpy's global generator,
\* rng_draw, is not consulted.  An outcome is [raise, label]: the call
\* raises, or it labels every text (equal texts are equal rows of X and
\* share a label).
KMeansFitPredict(rng_draw) == seeded_labels

\* the vectorization or the clustering step raises
ClusteringRaises(texts, outcome) == VectorizerRaises(texts) \/ outcome.raise

\* the finder without its try block: the exception leaves it
TopicClusterUncaught(raises) == raises

\* _find_topic_cluster_gaps: try: ... except Exception as e: logger.error(...)
\* -- whether an exception raised inside the try block leaves the finder
TopicClusterEscapes(raises) == FALSE

TopicClusterGap(query, cluster_id) ==
    [gap_id |-> <<"topic_cluster_gap", ToString(cluster_id), Hash(query)>>,
     query_text |-> query,
     gap_type |-> "topic_cluster_gap",
     opportunity_score |-> Rat(6, 10),
     competing_domains |-> <<>>,
     search_volume_estimate |-> EstimateSearchVolume(query),
     difficulty_score |-> Rat(4, 10),
     priority |-> "medium",
     estimated_effort |-> "medium",
     potential_impact |-> "medium"]

\* ClusterGaps with the half-mean test made inclusive
ClusterGapsInclusive(df, tracked, label, cluster_id) ==
    LET cluster_queries ==
            SelectIdx(tracked, [i \in 1..Len(tracked) |-> label[tracked[i]] = cluster_id])
        counts == [i \in 1..Len(cluster_queries) |->
                       Len(QueryRows(df, cluster_queries[i]))]
    IN IF Len(cluster_queries) < 2 \/ "query" \notin df.columns THEN <<>>
       ELSE LET avg_citations == Rat(SumSeq(counts), Len(counts))
            IN Flatten([i \in 1..Len(cluster_queries) |->
                   IF /\ ~RLt(RMul(avg_citations, Rat(5, 10)), Rat(counts[i], 1))
                      /\ counts[i] < 3
                   THEN <<TopicClusterGap(cluster_queries[i], cluster_id)>>
                   ELSE <<>>])

\* the gaps of one cluster: its queries with a count below half the
\* cluster's mean count and below 3
ClusterGaps(df, tracked, label, cluster_id) ==
    LET cluster_queries ==
            SelectIdx(tracked, [i \in 1..Len(tracked) |-> label[tracked[i]] = cluster_id])
        counts == [i \in 1..Len(cluster_queries) |->
                       Len(QueryRows(df, cluster_queries[i]))]
    IN IF Len(cluster_queries) < 2 \/ "query" \notin df.columns THEN <<>>
       ELSE LET avg_citations == Rat(SumSeq(counts), Len(counts))
            IN Flatten([i \in 1..Len(cluster_queries) |->
                   IF /\ RLt(Rat(counts[i], 1), RMul(avg_citations, Rat(5, 10)))
                      /\ counts[i] < 3
                   THEN <<TopicClusterGap(cluster_queries[i], cluster_id)>>
                   ELSE <<>>])

FindTopicClusterGaps(df, tracked, outcome) ==
    IF Len(tracked) < 10 THEN <<>>
    ELSE IF VectorizerRaises(tracked) THEN <<>>
    ELSE IF TopicClusterCount(tracked) < 2 THEN <<>>
    ELSE IF outcome.raise THEN <<>>
    ELSE Flatten([c \in 1..TopicClusterCount(tracked) |->
             ClusterGaps(df, tracked, outcome.label, c - 1)])

\* QuestionVariationGap with the opportunity score left at its base of 0.5
QuestionVariationGapFlatScore(topic, missing_type, existing_queries, total_citations) ==
    [gap_id |-> <<"question_variation", missing_type, Hash(topic)>>,
     query_text |-> GenerateQuestionVariation(topic, missing_type),
     gap_type |-> "question_variation",
     opportunity_score |-> Rat(50, 100),
     competing_domains |-> <<>>,
     search_volume_estimate |-> Max(100, total_citations * 50),
     difficulty_score |-> Rat(3, 10),
     priority |-> "medium",
     estimated_effort |-> "medium",
     potential_impact |-> "medium"]

QuestionVariationGap(topic, missing_type, existing_queries, total_citations) ==
    [gap_id |-> <<"question_variation", missing_type, Hash(topic)>>,
     query_text |-> GenerateQuestionVariation(topic, missing_type),
     gap_type |-> "question_variation",
     opportunity_score |-> Rat(50 + 3 * Min(total_citations, 10), 100),
     competing_domains |-> <<>>,
     search_volume_estimate |-> Max(100, total_citations * 50),
     difficulty_score |-> Rat(3, 10),
     priority |-> "medium",
     estimated_effort |-> "medium",
     potential_impact |-> "medium"]

FindQuestionVariationGaps(df, tracked) ==
    LET topic_of == Tuple([i \in 1..Len(tracked) |-> TopicOf(tracked[i])])
        \* the keys of topic_variations, in insertion order
        topics == Unique(SelectIdx(topic_of, [i \in 1..Len(tracked) |-> topic_of[i] # ""]))
    IN Flatten([k \in 1..Len(topics) |->
           LET topic == topics[k]
               queries == SelectIdx(tracked, [i \in 1..Len(tracked) |-> topic_of[i] = topic])
               variations == {QuestionType(Lower(queries[i])) : i \in 1..Len(queries)}
           IN IF Cardinality(variations) # 1 THEN <<>>
              ELSE LET existing_type == CHOOSE t \in variations : TRUE
                       total_citations ==
                           IF "query" \in df.columns
                           THEN SumSeq([i \in 1..Len(queries) |->
                                           Len(QueryRows(df, queries[i]))])
                           ELSE 0
                       missing_types ==
                           SelectIdx(SetOrder, [i \in 1..Len(SetOrder) |->
                                                   SetOrder[i] # existing_type])
                   IN [m \in 1..Len(missing_types) |->
                          QuestionVariationGap(topic, missing_types[m], queries,
                                               total_citations)]])

\* ------------------------------------------------------------------------
\* gap_identification.py: _score_and_prioritize_gaps
\* ------------------------------------------------------------------------
HighValueWords == {"how to", "best", "guide", "tutorial"}
CommercialWords == {"buy", "price", "cost", "review", "comparison"}

\* PriorityOf with the medium band starting at 0.3
PriorityOfFromThreeTenths(score) ==
    IF RLe(Rat(8, 10), score) THEN "high"
    ELSE IF RLe(Rat(3, 10), score) THEN "medium"
    ELSE "low"

\* priority from a score: >= 0.8 high, >= 0.5 medium, else low
PriorityOf(score) ==
    IF RLe(Rat(8, 10), score) THEN "high"
    ELSE IF RLe(Rat(5, 10), score) THEN "medium"
    ELSE "low"

\* AdjustGap without the recomputation of the priority: the priority the
\* finder assigned is kept
AdjustGapKeepsPriority(gap) ==
    LET text == Lower(gap.query_text)
        s0 == gap.opportunity_score
        s1 == IF AnyIn(text, HighValueWords) THEN RMin(ROne, RAdd(s0, Rat(1, 10)))
              ELSE s0
        s2 == IF AnyIn(text, CommercialWords) THEN RMin(ROne, RAdd(s1, Rat(15, 100)))
              ELSE s1
    IN [gap EXCEPT !.opportunity_score = s2,
                   !.potential_impact =
                       IF AnyIn(text, CommercialWords) THEN "high" ELSE @]

\* AdjustGap with the commercial boost applied to the finder's score: the
\* boosts do not add up
AdjustGapLastBoostOnly(gap) ==
    LET text == Lower(gap.query_text)
        s0 == gap.opportunity_score
        s1 == IF AnyIn(text, HighValueWords) THEN RMin(ROne, RAdd(s0, Rat(1, 10)))
              ELSE s0
        s2 == IF AnyIn(text, CommercialWords) THEN RMin(ROne, RAdd(s0, Rat(15, 100)))
              ELSE s1
    IN [gap EXCEPT !.opportunity_score = s2,
                   !.potential_impact =
                       IF AnyIn(text, CommercialWords) THEN "high" ELSE @,
                   !.priority = PriorityOf(s2)]

\* the body of the loop over the gaps: the two boosts, then the priority
AdjustGap(gap) ==
    LET text == Lower(gap.query_text)
        s0 == gap.opportunity_score
        s1 == IF AnyIn(text, HighValueWords) THEN RMin(ROne, RAdd(s0, Rat(1, 10)))
              ELSE s0
        s2 == IF AnyIn(text, CommercialWords) THEN RMin(ROne, RAdd(s1, Rat(15, 100)))
              ELSE s1
    IN [gap EXCEPT !.opportunity_score = s2,
                   !.potential_impact =
                       IF AnyIn(text, CommercialWords) THEN "high" ELSE @,
                   !.priority = PriorityOf(s2)]

\* an unstable placement: an element is placed before the earlier elements
\* of equal score
InsertGapBeforeTies(sorted, gap) ==
    LET ahead == {i \in 1..Len(sorted) :
                      RLt(gap.opportunity_score, sorted[i].opportunity_score)}
        k == Cardinality(ahead)
    IN SubSeq(sorted, 1, k) \o <<gap>> \o SubSeq(sorted, k + 1, Len(sorted))

\* list.sort(key=opportunity_score, reverse=True) is stable: an element is
\* placed behind every earlier element whose score is not smaller
InsertGap(sorted, gap) ==
    LET ahead == {i \in 1..Len(sorted) :
                      RLe(gap.opportunity_score, sorted[i].opportunity_score)}
        k == Cardinality(ahead)
    IN SubSeq(sorted, 1, k) \o <<gap>> \o SubSeq(sorted, k + 1, Len(sorted))

RECURSIVE SortGaps(_)
SortGaps(gs) ==
    IF gs = <<>> THEN <<>>
    ELSE InsertGap(SortGaps(SubSeq(gs, 1, Len(gs) - 1)), gs[Len(gs)])

ScoreAndPrioritizeGaps(gs) ==
    IF gs = <<>> THEN gs
    ELSE SortGaps([i \in 1..Len(gs) |-> AdjustGap(gs[i])])

\* ------------------------------------------------------------------------
\* pattern_recognition.py: the sub-scans of analyze_citation_patterns
\* A sub-scan yields [out, raised]: the patterns it returns, or raised = TRUE
\* when an exception (a KeyError for a column the frame lacks) leaves it.
\* ------------------------------------------------------------------------

\* datetime.now().strftime('%Y%m%d')
Today == "20250101"

Returns(ps) == [out |-> ps, raised |-> FALSE]
Raises == [out |-> <<>>, raised |-> TRUE]

Pattern(id, type, frequency, strength) ==
    [pattern_id |-> id, pattern_type |-> type, frequency |-> frequency,
     strength |-> strength]

\* the rows whose field has the value v
RowsWith(rows, field, v) ==
    SelectIdx(rows, [i \in 1..Len(rows) |-> rows[i][field] = v])

\* the mean of a non-empty sequence of rationals
RMean(rs) == RMul(RSumSeq(rs), Rat(1, Len(rs)))

\* the mean of a non-empty sequence of integers
Mean(xs) == Rat(SumSeq(xs), Len(xs))

\* the elements of a finite set as a sequence (the order is immaterial to
\* the sums and means taken over it)
RECURSIVE SetToSeq(_)
SetToSeq(S) ==
    IF S = {} THEN <<>>
    ELSE LET x == CHOOSE y \in S : TRUE IN <<x>> \o SetToSeq(S \ {x})

\* the pattern constructors read df['engine'] and df['citation_type']
\* without a guard
ReadsMissingColumn(df) ==
    "engine" \notin df.columns \/ "citation_type" \notin df.columns

\* HighFreqDomains with > in place of >=
HighFreqDomainsStrict(df) ==
    {d \in Range(Column(df.rows, "source_domain")) :
        Len(RowsWith(df.rows, "source_domain", d)) > analyzer.min_pattern_frequency}

\* domains with count >= min_pattern_frequency
HighFreqDomains(df) ==
    {d \in Range(Column(df.rows, "source_domain")) :
        Len(RowsWith(df.rows, "source_domain", d)) >= analyzer.min_pattern_frequency}

\* strength of the domain_frequency pattern
DomainFrequencyStrength(n) == RMin(ROne, Rat(n, 10))

\* domains with mean prominence >= 0.7 and count >= 2
HighProminenceDomains(df) ==
    {d \in Range(Column(df.rows, "source_domain")) :
        LET rows == RowsWith(df.rows, "source_domain", d)
        IN RLe(Rat(7, 10), MeanProminence(rows)) /\ Len(rows) >= 2}

AnalyzeDomainPatterns(df) ==
    IF "source_domain" \notin df.columns THEN Returns(<<>>)
    ELSE LET high_freq == HighFreqDomains(df)
             freq_pattern ==
                 IF high_freq = {} THEN <<>>
                 ELSE <<Pattern(<<"high_freq_domains", Today>>, "domain_frequency",
                                Cardinality(high_freq),
                                DomainFrequencyStrength(Cardinality(high_freq)))>>
             has_prom == "prominence_score" \in df.columns
             high_prom == IF has_prom THEN HighProminenceDomains(df) ELSE {}
             prom_pattern ==
                 IF high_prom = {} THEN <<>>
                 ELSE <<Pattern(<<"high_prominence_domains", Today>>,
                                "domain_prominence", Cardinality(high_prom),
                                RMean([i \in 1..Cardinality(high_prom) |->
                                    MeanProminence(RowsWith(df.rows, "source_domain",
                                        SetToSeq(high_prom)[i]))]))>>
         IN IF (high_freq # {} \/ high_prom # {}) /\ ReadsMissingColumn(df)
            THEN Raises
            ELSE Returns(freq_pattern \o prom_pattern)

\* DataFrame.round(3): to the nearest thousandth, ties to the even one
Round3(r) ==
    LET scaled == r.n * 1000
        q == scaled \div r.d
        rem == scaled % r.d
    IN IF 2 * rem < r.d THEN Rat(q, 1000)
       ELSE IF 2 * rem > r.d THEN Rat(q + 1, 1000)
       ELSE IF q % 2 = 0 THEN Rat(q, 1000) ELSE Rat(q + 1, 1000)

\* citation types with (rounded) mean prominence >= 0.6 and count >= 3
HighPerformingTypes(df) ==
    {t \in Range(Column(df.rows, "citation_type")) :
        LET rows == RowsWith(df.rows, "citation_type", t)
        IN RLe(Rat(6, 10), Round3(MeanProminence(rows))) /\ Len(rows) >= 3}

AnalyzeContentTypePatterns(df) ==
    IF "citation_type" \notin df.columns THEN Returns(<<>>)
    \* groupby('citation_type').agg({'prominence_score': ..., 'position': ...})
    ELSE IF "prominence_score" \notin df.columns \/ "position" \notin df.columns
    THEN Raises
    ELSE LET types == SetToSeq(HighPerformingTypes(df))
         IN IF types = <<>> THEN Returns(<<>>)
            ELSE IF "engine" \notin df.columns THEN Raises
            ELSE Returns(<<Pattern(<<"high_performing_types", Today>>,
                     "content_type_performance",
                     SumSeq([i \in 1..Len(types) |->
                                Len(RowsWith(df.rows, "citation_type", types[i]))]),
                     RMean([i \in 1..Len(types) |->
                                Round3(MeanProminence(
                                    RowsWith(df.rows, "citation_type", types[i])))]))>>)

\* df[df['position'] <= 3]
TopPositions(df) ==
    SelectIdx(df.rows, [i \in 1..Len(df.rows) |-> df.rows[i].position <= 3])

\* the rows of top of one (source_domain, citation_type) group
GroupRows(top, key) ==
    SelectIdx(top, [i \in 1..Len(top) |->
        <<top[i].source_domain, top[i].citation_type>> = key])

\* strength of the position_consistency pattern from the mean of the
\* groups' mean positions
PositionStrength(mean_position) == RSub(ROne, RMul(mean_position, Rat(1, 10)))

AnalyzePositionPatterns(df) ==
    IF "position" \notin df.columns THEN Returns(<<>>)
    ELSE LET top == TopPositions(df)
         IN IF Len(top) < analyzer.min_pattern_frequency THEN Returns(<<>>)
            \* groupby(['source_domain', 'citation_type']).agg({'position': ...,
            \*                                                  'prominence_score': ...})
            ELSE IF \/ "source_domain" \notin df.columns
                    \/ "citation_type" \notin df.columns
                    \/ "prominence_score" \notin df.columns
            THEN Raises
            ELSE LET keys == {<<top[i].source_domain, top[i].citation_type>> :
                                  i \in 1..Len(top)}
                     consistent_top ==
                         SetToSeq({k \in keys : Len(GroupRows(top, k)) >= 2})
                 IN IF consistent_top = <<>> THEN Returns(<<>>)
                    ELSE IF "engine" \notin df.columns THEN Raises
                    ELSE Returns(<<Pattern(<<"top_position_pattern", Today>>,
                             "position_consistency",
                             SumSeq([i \in 1..Len(consistent_top) |->
                                        Len(GroupRows(top, consistent_top[i]))]),
                             PositionStrength(
                                 RMean([i \in 1..Len(consistent_top) |->
                                     Mean(Column(GroupRows(top, consistent_top[i]),
                                                 "position"))])))>>)

\* the number of rows per distinct value of a field, as a sequence
CountsBy(rows, field) ==
    LET values == SetToSeq(Range(Column(rows, field)))
    IN [i \in 1..Len(values) |-> Len(RowsWith(rows, field, values[i]))]

RECURSIVE MaxSeq(_)
MaxSeq(xs) == IF Len(xs) = 1 THEN xs[1] ELSE Max(xs[1], MaxSeq(Tail(xs)))

RECURSIVE MinSeq(_)
MinSeq(xs) == IF Len(xs) = 1 THEN xs[1] ELSE Min(xs[1], MinSeq(Tail(xs)))

\* strength of the temporal_spikes pattern
SpikeStrength(high_days, days) == RMin(ROne, Rat(high_days, days))

\* WeeklyStrength without the min(1.0, ...) clamp
WeeklyStrengthUnclamped(counts) ==
    RMul(Rat(MaxSeq(counts) - MinSeq(counts), 1), Rat(Len(counts), SumSeq(counts)))

\* strength of the weekly_variation pattern from the weekday counts
WeeklyStrength(counts) ==
    RMin(ROne, RMul(Rat(MaxSeq(counts) - MinSeq(counts), 1),
                    Rat(Len(counts), SumSeq(counts))))

\* created_at.dt.day_name(): the weekday of a day number
DayOfWeek(day) == day % 7

AnalyzeTemporalPatterns(df) ==
    IF "created_at" \notin df.columns THEN Returns(<<>>)
    ELSE LET daily_counts == CountsBy(df.rows, "created_at")
             avg_daily == Mean(daily_counts)
             high_activity_days ==
                 {i \in 1..Len(daily_counts) :
                     RLt(RMul(avg_daily, Rat(15, 10)), Rat(daily_counts[i], 1))}
             spikes ==
                 IF Len(daily_counts) >= 7 /\ Cardinality(high_activity_days) >= 2
                 THEN <<Pattern(<<"high_activity_days", Today>>, "temporal_spikes",
                                Cardinality(high_activity_days),
                                SpikeStrength(Cardinality(high_activity_days),
                                              Len(daily_counts)))>>
                 ELSE <<>>
             weekdays == [i \in 1..Len(df.rows) |->
                             [day_of_week |-> DayOfWeek(df.rows[i].created_at)]]
             weekly_patterns == CountsBy(weekdays, "day_of_week")
             weekly ==
                 IF RLt(Rat(15, 10), Rat(MaxSeq(weekly_patterns), MinSeq(weekly_patterns)))
                 THEN <<Pattern(<<"weekly_pattern", Today>>, "weekly_variation",
                                Len(df.rows), WeeklyStrength(weekly_patterns))>>
                 ELSE <<>>
         IN IF (spikes # <<>> \/ weekly # <<>>) /\ ReadsMissingColumn(df)
            THEN Raises
            ELSE Returns(spikes \o weekly)

\* AnalyzeEnginePatterns looping over df['engine'] in place of
\* df['engine'].unique(): one round per record
AnalyzeEnginePatternsPerRecord(df) ==
    IF "engine" \notin df.columns THEN Returns(<<>>)
    ELSE IF \/ "prominence_score" \notin df.columns
            \/ "position" \notin df.columns
            \/ "source_domain" \notin df.columns
    THEN Raises
    ELSE IF "citation_type" \notin df.columns THEN Returns(<<>>)
    ELSE LET engines == Column(df.rows, "engine")
         IN Returns(Flatten([e \in 1..Len(engines) |->
                LET engine_data == RowsWith(df.rows, "engine", engines[e])
                    top == MaxSeq(CountsBy(engine_data, "citation_type"))
                IN IF RLt(Rat(6, 10), Rat(top, Len(engine_data)))
                   THEN <<Pattern(<<"engine_preference", engines[e], Today>>,
                                  "engine_content_preference", top,
                                  Rat(top, Len(engine_data)))>>
                   ELSE <<>>]))

AnalyzeEnginePatterns(df) ==
    IF "engine" \notin df.columns THEN Returns(<<>>)
    \* groupby('engine').agg({'prominence_score': ..., 'position': ...,
    \*                        'source_domain': ...})
    ELSE IF \/ "prominence_score" \notin df.columns
            \/ "position" \notin df.columns
            \/ "source_domain" \notin df.columns
    THEN Raises
    ELSE IF "citation_type" \notin df.columns THEN Returns(<<>>)
    ELSE LET engines == Unique(Column(df.rows, "engine"))
         IN Returns(Flatten([e \in 1..Len(engines) |->
                LET engine_data == RowsWith(df.rows, "engine", engines[e])
                    top == MaxSeq(CountsBy(engine_data, "citation_type"))
                IN IF RLt(Rat(6, 10), Rat(top, Len(engine_data)))
                   THEN <<Pattern(<<"engine_preference", engines[e], Today>>,
                                  "engine_content_preference", top,
                                  Rat(top, Len(engine_data)))>>
                   ELSE <<>>]))

AnalyzeContentFeaturePatterns(df) ==
    IF "metadata" \notin df.columns THEN Returns(<<>>)
    ELSE LET features == UNION Range(Column(df.rows, "metadata"))
             count(f) == Cardinality({i \in 1..Len(df.rows) : f \in df.rows[i].metadata})
             frequent == SetToSeq({f \in features : count(f) >= analyzer.min_pattern_frequency})
         IN IF frequent = <<>> THEN Returns(<<>>)
            ELSE IF ReadsMissingColumn(df) THEN Raises
            ELSE Returns(<<Pattern(<<"metadata_patterns", Today>>, "content_features",
                     SumSeq([i \in 1..Len(frequent) |-> count(frequent[i])]),
                     Rat(Len(frequent), Max(Cardinality(features), 1)))>>)

\* n_clusters = min(5, len(df) // 3)
QueryClusterCount(df) == Min(5, Len(df.rows) \div 3)

\* _analyze_query_similarity_patterns: try: ... except Exception as e:
\* logger.error(...)  -- whether an exception raised inside the try block
\* leaves the sub-scan
QuerySimilarityEscapes(raises) == FALSE

\* the vectorization or the clustering step of the sub-scan raises
QueryClusteringRaises(df, outcome) ==
    /\ "query" \in df.columns
    /\ Len(df.rows) >= 10
    /\ \/ VectorizerRaises(Column(df.rows, "query"))
       \/ QueryClusterCount(df) >= 2 /\ outcome.raise

AnalyzeQuerySimilarityPatterns(df, outcome) ==
    IF "query" \notin df.columns \/ Len(df.rows) < 10 THEN <<>>
    ELSE IF VectorizerRaises(Column(df.rows, "query")) THEN <<>>
    ELSE IF QueryClusterCount(df) < 2 THEN <<>>
    ELSE IF outcome.raise THEN <<>>
    ELSE IF "source_domain" \notin df.columns THEN <<>>
    \* the constructor's KeyError is caught by the except clause as well
    ELSE IF ReadsMissingColumn(df) THEN <<>>
    ELSE Flatten([c \in 1..QueryClusterCount(df) |->
             LET cluster_data ==
                     SelectIdx(df.rows, [i \in 1..Len(df.rows) |->
                         outcome.label[df.rows[i].query] = c - 1])
             IN IF Len(cluster_data) >= analyzer.min_pattern_frequency
                THEN <<Pattern(<<"query_cluster", ToString(c - 1), Today>>, "query_similarity",
                               Len(cluster_data),
                               Rat(Len(cluster_data), Len(df.rows)))>>
                ELSE <<>>])

\* ------------------------------------------------------------------------
\* pattern_recognition.py: analyze_competitor_patterns
\* created_at holds datetimes (day numbers at midnight), so the date
\* arithmetic does not raise.
\* ------------------------------------------------------------------------
\* keys in descending order of count[key]; equal counts keep the order of keys
RECURSIVE ByCount(_, _)
ByCount(keys, count) ==
    IF keys = <<>> THEN <<>>
    ELSE LET rest == ByCount(SubSeq(keys, 1, Len(keys) - 1), count)
             x == keys[Len(keys)]
             k == Cardinality({i \in 1..Len(rest) : count[rest[i]] >= count[x]})
         IN SubSeq(rest, 1, k) \o <<x>> \o SubSeq(rest, k + 1, Len(rest))

\* Series.value_counts() and Counter(xs): the count of each value, and the
\* values by descending count (equal counts in order of first appearance)
ValueCounts(xs) ==
    LET count == [v \in Range(xs) |-> Cardinality({i \in 1..Len(xs) : xs[i] = v})]
    IN [count |-> count, index |-> ByCount(Unique(xs), count)]

\* s[:n]
FirstN(s, n) == SubSeq(s, 1, Min(n, Len(s)))

\* df[df['source_domain'] == domain.lower()]
DomainCitations(df, domain) == RowsWith(df.rows, "source_domain", Lower(domain))

\* (df['created_at'].max() - df['created_at'].min()).days
DateRange(df) ==
    MaxSeq(Column(df.rows, "created_at")) - MinSeq(Column(df.rows, "created_at"))

CitationFrequency(df, domain_citations) ==
    IF "created_at" \in df.columns
    THEN Rat(Len(domain_citations), Max(1, DateRange(df)))
    ELSE Rat(Len(domain_citations), 1)

PreferredContentTypes(df, domain_citations) ==
    IF "citation_type" \in df.columns
    THEN FirstN(ValueCounts(Column(domain_citations, "citation_type")).index, 3)
    ELSE <<>>

TopicStopWords == {"what", "how", "why", "when", "where", "who", "which"}

StrongTopics(df, domain_citations) ==
    IF "query" \in df.columns
    THEN LET all_words == Split(Lower(Join(Column(domain_citations, "query"))))
             most_common == FirstN(ValueCounts(all_words).index, 10)
             common_words ==
                 SelectIdx(most_common,
                           [i \in 1..Len(most_common) |->
                               /\ Len(most_common[i]) > 3
                               /\ most_common[i] \notin TopicStopWords])
         IN FirstN(common_words, 5)
    ELSE <<>>

\* the two value_counts().to_dict() histograms; a day number is midnight
TimingPatterns(df, domain_citations) ==
    IF "created_at" \in df.columns
    THEN LET hours == [i \in 1..Len(domain_citations) |-> 0]
             days == [i \in 1..Len(domain_citations) |->
                         DayOfWeek(domain_citations[i].created_at)]
         IN [hourly_distribution |-> ValueCounts(hours).count,
             daily_distribution |-> ValueCounts(days).count]
    ELSE <<>>

AveragePosition(df, domain_citations) ==
    IF "position" \in df.columns
    THEN Mean(Column(domain_citations, "position"))
    ELSE RZero

\* EnginesDominance with the shares taken over all the records
EnginesDominanceOverAll(df, domain_citations) ==
    IF "engine" \in df.columns
    THEN LET engine_counts == ValueCounts(Column(domain_citations, "engine")).count
         IN [e \in DOMAIN engine_counts |-> Rat(engine_counts[e], Len(df.rows))]
    ELSE <<>>

\* {engine: count / total_citations}
EnginesDominance(df, domain_citations) ==
    IF "engine" \in df.columns
    THEN LET engine_counts == ValueCounts(Column(domain_citations, "engine")).count
             total_citations == Len(domain_citations)
         IN [e \in DOMAIN engine_counts |-> Rat(engine_counts[e], total_citations)]
    ELSE <<>>

CompetitorPattern(df, domain, domain_citations) ==
    [competitor_domain |-> domain,
     citation_frequency |-> CitationFrequency(df, domain_citations),
     preferred_content_types |-> PreferredContentTypes(df, domain_citations),
     strong_topics |-> StrongTopics(df, domain_citations),
     citation_timing_patterns |-> TimingPatterns(df, domain_citations),
     average_position |-> AveragePosition(df, domain_citations),
     engines_dominance |-> EnginesDominance(df, domain_citations)]

\* one pass of the loop over competitor_domains: the patterns it appends
CompetitorPatternsFor(df, domain) ==
    IF "source_domain" \notin df.columns THEN <<>>
    ELSE LET domain_citations == DomainCitations(df, domain)
         IN IF Len(domain_citations) = 0 THEN <<>>
            ELSE <<CompetitorPattern(df, domain, domain_citations)>>

\* ------------------------------------------------------------------------
\* gap_identification.py: generate_gap_report
\* ------------------------------------------------------------------------
\* round(x, 2): to the nearest hundredth, a tie to the even one
Round2(r) ==
    LET scaled == r.n * 100
        q == scaled \div r.d
        rem == scaled % r.d
    IN IF 2 * rem < r.d THEN Rat(q, 100)
       ELSE IF 2 * rem > r.d THEN Rat(q + 1, 100)
       ELSE IF q % 2 = 0 THEN Rat(q, 100) ELSE Rat(q + 1, 100)

\* the entry of top_opportunities made from a gap
TopOpportunity(gap) ==
    [query |-> gap.query_text, opportunity_score |-> gap.opportunity_score,
     gap_type |-> gap.gap_type, priority |-> gap.priority,
     suggested_content_type |-> gap.suggested_content_type,
     reasoning |-> gap.reasoning]

\* [... for gap in gaps[:10]]
TopOpportunities(gs) ==
    [i \in 1..Min(10, Len(gs)) |-> TopOpportunity(gs[i])]

\* the entry of quick_wins made from a gap
QuickWin(gap) ==
    [query |-> gap.query_text, opportunity_score |-> gap.opportunity_score,
     estimated_effort |-> gap.estimated_effort]

\* QuickWins without the [:5] slice
QuickWinsUncut(gs) ==
    LET wins == SelectIdx(gs, [i \in 1..Len(gs) |->
                                    /\ gs[i].estimated_effort = "low"
                                    /\ RLe(Rat(6, 10), gs[i].opportunity_score)])
    IN [i \in 1..Len(wins) |-> QuickWin(wins[i])]

\* [... for gap in gaps if gap.estimated_effort == 'low'
\*                         and gap.opportunity_score >= 0.6][:5]
QuickWins(gs) ==
    LET wins == SelectIdx(gs, [i \in 1..Len(gs) |->
                                    /\ gs[i].estimated_effort = "low"
                                    /\ RLe(Rat(6, 10), gs[i].opportunity_score)])
    IN FirstN([i \in 1..Len(wins) |-> QuickWin(wins[i])], 5)

GenerateGapReport(gs) ==
    IF gs = <<>>
    THEN [total_gaps |-> 0, summary |-> "No content gs identified"]
    ELSE LET high_opportunity_gaps ==
                 SelectIdx(gs, [i \in 1..Len(gs) |->
                                     RLe(Rat(7, 10), gs[i].opportunity_score)])
         IN [total_gaps |-> Len(gs),
             gap_types |-> ValueCounts(Column(gs, "gap_type")).count,
             priority_distribution |-> ValueCounts(Column(gs, "priority")).count,
             average_opportunity_score |->
                 Round2(RMean(Column(gs, "opportunity_score"))),
             high_opportunity_gaps |-> Len(high_opportunity_gaps),
             suggested_content_types |->
                 ValueCounts(Column(gs, "suggested_content_type")).count,
             effort_distribution |->
                 ValueCounts(Column(gs, "estimated_effort")).count,
             top_opportunities |-> TopOpportunities(gs),
             quick_wins |-> QuickWins(gs),
             summary |-> <<"Identified", Len(gs), "content gaps with",
                           Len(high_opportunity_gaps), "high-opportunity targets">>]

\* ------------------------------------------------------------------------
\* pattern_recognition.py: generate_pattern_insights
\* A description is the tuple of its template's name and the values filled in.
\* ------------------------------------------------------------------------
Insight(type, description, priority) ==
    [type |-> type, description |-> description, priority |-> priority]

\* what the first loop appends to insights['recommendations'] for a pattern
RecommendationsOf(pattern) ==
    IF pattern.pattern_type = "domain_frequency" /\ RLe(Rat(7, 10), pattern.strength)
    THEN <<Insight("content_partnership",
                   <<"partnerships with", FirstN(pattern.domains, 3)>>,
                   IF RLe(Rat(8, 10), pattern.strength) THEN "high" ELSE "medium")>>
    ELSE <<>>

\* what the first loop appends to insights['opportunities'] for a pattern
OpportunitiesOf(pattern) ==
    IF pattern.pattern_type = "domain_frequency" /\ RLe(Rat(7, 10), pattern.strength)
    THEN <<>>
    ELSE IF /\ pattern.pattern_type = "content_type_performance"
            /\ RLe(Rat(7, 10), pattern.strength)
    THEN <<Insight("content_optimization",
                   <<"focus on", [i \in 1..Min(2, Len(pattern.examples)) |->
                                     pattern.examples[i].content_type]>>,
                   "high")>>
    ELSE IF pattern.pattern_type = "engine_content_preference"
    THEN <<Insight("engine_optimization",
                   <<"optimize for",
                     IF pattern.engines # <<>> THEN pattern.engines[1] ELSE "unknown",
                     IF pattern.content_types # <<>> THEN pattern.content_types[1]
                     ELSE "unknown">>,
                   "medium")>>
    ELSE IF pattern.pattern_type = "temporal_spikes" /\ RLe(Rat(6, 10), pattern.strength)
    THEN <<Insight("timing_optimization", <<"schedule in high-activity periods">>,
                   "medium")>>
    ELSE <<>>

\* IsDominant with the threshold of the timing opportunities
IsDominantFromSixTenths(pattern) == RLe(Rat(6, 10), pattern.strength)

\* if pattern.strength >= 0.8 (the threats loop)
IsDominant(pattern) == RLe(Rat(8, 10), pattern.strength)

\* what the second loop appends to insights['threats'] for a pattern
ThreatsOf(pattern) ==
    IF pattern.pattern_type = "domain_frequency" /\ IsDominant(pattern)
    THEN <<Insight("competitor_dominance",
                   <<"high competitor dominance", FirstN(pattern.domains, 3)>>,
                   "high")>>
    ELSE <<>>

GeneratePatternInsights(ps) ==
    [total_patterns |-> Len(ps),
     pattern_types |-> ValueCounts(Column(ps, "pattern_type")).count,
     high_strength_patterns |->
         SelectIdx(ps, [i \in 1..Len(ps) |-> RLe(Rat(8, 10), ps[i].strength)]),
     recommendations |-> Flatten([i \in 1..Len(ps) |-> RecommendationsOf(ps[i])]),
     opportunities |-> Flatten([i \in 1..Len(ps) |-> OpportunitiesOf(ps[i])]),
     threats |-> Flatten([i \in 1..Len(ps) |-> ThreatsOf(ps[i])])]

\* ------------------------------------------------------------------------
\* citation_parser.py: CitationNormalizer
\* The text of a query parameter is made of unreserved characters and of the
\* blank, written '+' or '%20'; a URL has no ';' (parsed.params is '').
\* ------------------------------------------------------------------------
\* s[:i-1] and s[i:] for a 1-based position i
Before(s, i) == SubSeq(s, 1, i - 1)
From(s, i) == SubSeq(s, i, Len(s))

\* Python: s.split(sep) for a one-character sep
RECURSIVE SplitOn(_, _)
SplitOn(s, sep) ==
    LET i == IndexIn(s, sep, 1)
    IN IF i = 0 THEN <<s>> ELSE <<Before(s, i)>> \o SplitOn(From(s, i + 1), sep)

\* Python: sep.join(parts)
RECURSIVE JoinWith(_, _)
JoinWith(parts, sep) ==
    IF parts = <<>> THEN ""
    ELSE IF Len(parts) = 1 THEN parts[1]
    ELSE parts[1] \o sep \o JoinWith(Tail(parts), sep)

\* urllib.parse.scheme_chars
SchemeChars == LowerCase \o UpperCase \o "0123456789+-."

\* urlsplit's test of url[:i] as a scheme
IsScheme(s) ==
    /\ s # ""
    /\ IndexIn(LowerCase \o UpperCase, Char(s, 1), 1) > 0
    /\ \A k \in 1..Len(s) : IndexIn(SchemeChars, Char(s, k), 1) > 0

\* _splitnetloc: the position of the first of '/', '?', '#', or the end
NetlocEnd(s) ==
    LET hits == {k \in 1..Len(s) : Char(s, k) \in {"/", "?", "#"}}
    IN IF hits = {} THEN Len(s) + 1 ELSE CHOOSE k \in hits : \A j \in hits : k <= j

\* urlparse(url); raised: the ValueError("Invalid IPv6 URL") of urlsplit
UrlParse(url) ==
    LET colon == IndexIn(url, ":", 1)
        has_scheme == colon > 1 /\ IsScheme(Before(url, colon))
        scheme == IF has_scheme THEN Lower(Before(url, colon)) ELSE ""
        rest == IF has_scheme THEN From(url, colon + 1) ELSE url
        has_netloc == SubSeq(rest, 1, Min(2, Len(rest))) = "//"
        after == From(rest, 3)
        netloc == IF has_netloc THEN Before(after, NetlocEnd(after)) ELSE ""
        rest2 == IF has_netloc THEN From(after, NetlocEnd(after)) ELSE rest
        hash == IndexIn(rest2, "#", 1)
        fragment == IF hash > 0 THEN From(rest2, hash + 1) ELSE ""
        rest3 == IF hash > 0 THEN Before(rest2, hash) ELSE rest2
        mark == IndexIn(rest3, "?", 1)
    IN [raised |-> Contains(netloc, "[") # Contains(netloc, "]"),
        scheme |-> scheme,
        netloc |-> netloc,
        path |-> IF mark > 0 THEN Before(rest3, mark) ELSE rest3,
        params |-> "",
        query |-> IF mark > 0 THEN From(rest3, mark + 1) ELSE "",
        fragment |-> fragment]

\* schemes of urllib.parse.uses_netloc that the model's URLs use
UsesNetloc == {"http", "https", "ftp"}

\* urlunparse((scheme, netloc, path, params, query, fragment))
UrlUnparse(scheme, netloc, path, params, query, fragment) ==
    LET url == IF params # "" THEN path \o ";" \o params ELSE path
        rooted == IF url # "" /\ Char(url, 1) # "/" THEN "/" \o url ELSE url
        located ==
            IF \/ netloc # ""
               \/ (scheme # "" /\ scheme \in UsesNetloc /\ SubSeq(url, 1, Min(2, Len(url))) # "//")
            THEN "//" \o netloc \o rooted
            ELSE url
        schemed == IF scheme # "" THEN scheme \o ":" \o located ELSE located
        queried == IF query # "" THEN schemed \o "?" \o query ELSE schemed
    IN IF fragment # "" THEN queried \o "#" \o fragment ELSE queried

\* unquote(s.replace('+', ' ')) on the parameter text of the model
RECURSIVE Unquote(_)
Unquote(s) ==
    IF s = "" THEN ""
    ELSE IF Char(s, 1) = "+" THEN " " \o Unquote(From(s, 2))
    ELSE IF SubSeq(s, 1, Min(3, Len(s))) = "%20" THEN " " \o Unquote(From(s, 4))
    ELSE Char(s, 1) \o Unquote(From(s, 2))

\* quote_plus(s) on the parameter text of the model
RECURSIVE QuotePlus(_)
QuotePlus(s) ==
    IF s = "" THEN ""
    ELSE (IF Char(s, 1) = " " THEN "+" ELSE Char(s, 1)) \o QuotePlus(From(s, 2))

\* the name=value fields of a query string that parse_qs keeps
\* (keep_blank_values=False, strict_parsing=False), as <<name, value>>
ParsedFields(query) ==
    LET parts == SplitOn(query, "&")
        kept == SelectIdx(parts,
                          [i \in 1..Len(parts) |->
                              LET eq == IndexIn(parts[i], "=", 1)
                              IN eq > 0 /\ From(parts[i], eq + 1) # ""])
    IN [i \in 1..Len(kept) |->
           LET eq == IndexIn(kept[i], "=", 1)
           IN <<Unquote(Before(kept[i], eq)), Unquote(From(kept[i], eq + 1))>>]

\* parse_qs(query): the names in order of first appearance, each with the
\* list of its values
ParseQs(query) ==
    LET fields == ParsedFields(query)
        names == Unique([i \in 1..Len(fields) |-> fields[i][1]])
    IN [i \in 1..Len(names) |->
           [name |-> names[i],
            values |-> LET own == SelectIdx(fields, [j \in 1..Len(fields) |->
                                                        fields[j][1] = names[i]])
                       IN [j \in 1..Len(own) |-> own[j][2]]]]

\* urlencode(params, doseq=True)
UrlEncode(params) ==
    JoinWith(Flatten([i \in 1..Len(params) |->
                         [j \in 1..Len(params[i].values) |->
                             QuotePlus(params[i].name) \o "="
                                 \o QuotePlus(params[i].values[j])]]),
             "&")

TrackingParams ==
    {"utm_source", "utm_medium", "utm_campaign", "utm_term", "utm_content",
     "fbclid", "gclid", "ref", "source"}

\* _clean_url
CleanUrl(url) ==
    IF url = "" THEN ""
    ELSE LET parsed == UrlParse(url)
             query_params == ParseQs(parsed.query)
             clean_params ==
                 SelectIdx(query_params,
                           [i \in 1..Len(query_params) |->
                               query_params[i].name \notin TrackingParams])
         IN IF parsed.raised THEN url
            ELSE UrlUnparse(parsed.scheme, parsed.netloc, parsed.path,
                            parsed.params, UrlEncode(clean_params), parsed.fragment)

\* text[:max_length].rsplit(' ', 1)[0]
RSplitHead(s) ==
    LET blanks == {k \in 1..Len(s) : Char(s, k) = " "}
    IN IF blanks = {} THEN s
       ELSE Before(s, CHOOSE k \in blanks : \A j \in blanks : j <= k)

\* _clean_text
CleanText(text, max_length) ==
    IF text = "" THEN ""
    ELSE LET joined == Join(Split(text))
         IN IF Len(joined) > max_length
            THEN RSplitHead(SubSeq(joined, 1, max_length)) \o "..."
            ELSE joined

\* citation_data.get(key, default)
Get(citation_data, key, default) ==
    IF key \in DOMAIN citation_data THEN citation_data[key] ELSE default

\* datetime.utcnow().isoformat()
UtcNow == "2025-01-01T00:00:00"

\* max(0.0, min(1.0, prominence_score)), in hundredths
ClampProminence(prominence_score) == Max(0, Min(100, prominence_score))

NormalizeCitation(citation_data, source_engine) ==
    [engine |-> source_engine,
     url |-> CleanUrl(Get(citation_data, "url", "")),
     title |-> CleanText(Get(citation_data, "title", ""), 200),
     snippet |-> CleanText(Get(citation_data, "snippet", ""), 500),
     position |-> Get(citation_data, "position", 0),
     citation_type |-> Get(citation_data, "citation_type", "unknown"),
     source_domain |-> Get(citation_data, "source_domain", ""),
     prominence_score |-> ClampProminence(Get(citation_data, "prominence_score", 0)),
     metadata |-> Get(citation_data, "metadata", {}),
     timestamp |-> UtcNow]

\* ------------------------------------------------------------------------
\* engines/google_serp.py: GoogleSERPCollector
\* ------------------------------------------------------------------------
\* A SERP result dict as the extractors read it: keys is the set of its
\* top-level keys; ai_sources is the length of ai_overview["sources"] (-1:
\* no such key); related_questions tells for each question whether it has a
\* "snippet"; kg_keys is the set of keys of knowledge_graph, kg_sources the
\* length of its "sources"; organic_results are records [has_position,
\* position]; raises tells whether search.get_dict() raises.  Prominence is
\* in hundredths.
SerpCitation(citation_type, position, prominence_score) ==
    [engine |-> "google", citation_type |-> citation_type, position |-> position,
     prominence_score |-> prominence_score]

\* _calculate_ai_overview_prominence
CalculateAiOverviewProminence(position, total_sources) ==
    IF total_sources = 0 THEN 0 ELSE Max(10, 90 - (position - 1) * 10)

\* _calculate_paa_prominence
CalculatePaaProminence(position) == Max(10, 60 - position * 5)

\* _calculate_organic_prominence
CalculateOrganicProminence(position) ==
    IF position <= 3 THEN 50 - (position - 1) * 10
    ELSE IF position <= 10 THEN 30 - (position - 4) * 2
    ELSE 10

ExtractAiOverviewCitations(results) ==
    IF "ai_overview" \notin results.keys \/ results.ai_sources < 0 THEN <<>>
    ELSE [k \in 1..results.ai_sources |->
             SerpCitation("ai_overview", k,
                          CalculateAiOverviewProminence(k - 1, results.ai_sources))]

ExtractFeaturedSnippetCitations(results) ==
    IF "answer_box" \in results.keys
    THEN <<SerpCitation("featured_snippet", 0, 100)>>
    ELSE <<>>

ExtractPeopleAlsoAskCitations(results) ==
    IF "related_questions" \notin results.keys THEN <<>>
    ELSE Flatten([k \in 1..Len(results.related_questions) |->
             IF results.related_questions[k]
             THEN <<SerpCitation("people_also_ask", k, CalculatePaaProminence(k - 1))>>
             ELSE <<>>])

\* the additional knowledge graph source of index idx
KnowledgePanelSource(idx) ==
    SerpCitation("knowledge_panel_source", idx + 2, 70 - idx * 10)

ExtractKnowledgePanelCitations(results) ==
    IF "knowledge_graph" \notin results.keys THEN <<>>
    ELSE (IF "source" \in results.kg_keys
          THEN <<SerpCitation("knowledge_panel", 1, 90)>> ELSE <<>>)
         \o (IF "sources" \in results.kg_keys
             THEN [k \in 1..results.kg_sources |-> KnowledgePanelSource(k - 1)]
             ELSE <<>>)

\* the default of max_results
MaxResults == 10

ExtractOrganicCitations(results) ==
    IF "organic_results" \notin results.keys THEN <<>>
    ELSE LET shown == FirstN(results.organic_results, MaxResults)
         IN [k \in 1..Len(shown) |->
                LET position == IF shown[k].has_position THEN shown[k].position ELSE k
                IN SerpCitation("organic", position, CalculateOrganicProminence(position))]

\* GoogleSERPCollector.collect_citations: the five extractors in order; an
\* exception of the search returns the empty list
GoogleCollectCitations(results) ==
    IF results.raises THEN <<>>
    ELSE ExtractAiOverviewCitations(results)
         \o ExtractFeaturedSnippetCitations(results)
         \o ExtractPeopleAlsoAskCitations(results)
         \o ExtractKnowledgePanelCitations(results)
         \o ExtractOrganicCitations(results)

\* ------------------------------------------------------------------------
\* engines/perplexity.py: PerplexityCollector
\* ------------------------------------------------------------------------
\* An API response as collect_citations reads it: failed (the post raises
\* or the status is not 200), choices (how many choices it has), citations
\* (the urls under "citations"), content_urls (the urls in the text of the
\* answer), related_questions.  A frame is a call of collect_citations
\* whose response is being read by _extract_citations_from_response: its
\* query, the citations collected so far and the related questions not yet
\* asked.
PerplexityCitation(query, citation_type, position) ==
    [engine |-> "perplexity", query |-> query, citation_type |-> citation_type,
     position |-> position, related_question |-> ""]

\* the call returns [] without reading the response
ReturnsEmpty(response) == response.failed \/ response.choices = 0

\* the citations of the response itself: one per url, then the inline ones
ResponseCitations(response, query) ==
    [k \in DOMAIN response.citations |->
        PerplexityCitation(query, "direct_answer", k)]
    \o [k \in DOMAIN response.content_urls |->
           PerplexityCitation(query, "inline_citation", k)]

\* the caller marks every citation a related question returned
AsRelatedQuestion(related_citations, question) ==
    [k \in DOMAIN related_citations |->
        [related_citations[k] EXCEPT !.citation_type = "related_question",
                                     !.related_question = question]]

\* a call returns value: to the caller of the collector when no call is
\* left in progress, else into the loop over the related questions of the
\* innermost one
ReturnTo(callers, value) ==
    IF callers = <<>>
    THEN /\ result' = value
         /\ frames' = <<>>
         /\ pc' = "done"
    ELSE LET top == callers[Len(callers)]
         IN /\ frames' = [callers EXCEPT ![Len(callers)] =
                             [top EXCEPT !.citations =
                                             @ \o AsRelatedQuestion(value, Head(top.pending)),
                                         !.pending = Tail(@)]]
            /\ pc' = "extract"
            /\ UNCHANGED result

\* ------------------------------------------------------------------------
\* The calls the model makes
\* ------------------------------------------------------------------------
NoLabels == [raise |-> FALSE, label |-> <<>>]

\* the states of numpy's global random generator at the time of a call
RngDraws == {0, 1}

\* the outcomes of fit_predict on the given texts with k clusters: it
\* raises, or it labels each distinct text; the texts after the first
\* MaxLabelled distinct ones fall in cluster 0
LabelOutcomes(texts, k) ==
    LET distinct == Unique(texts)
        free == {distinct[i] : i \in 1..Min(MaxLabelled, Len(distinct))}
    IN {[raise |-> TRUE, label |-> <<>>]}
        \cup {[raise |-> FALSE,
               label |-> [q \in Range(texts) |-> IF q \in free THEN f[q] ELSE 0]] :
                 f \in [free -> 0..(k - 1)]}

GapCall(c, t, k, h, o, n) ==
    [entry |-> "identify_content_gaps", citations |-> c, columns |-> AllColumns,
     tracked_queries |-> t, competitor_domains |-> k, hashSeed |-> h,
     seeded_labels |-> o, calls |-> n, argument |-> <<>>, other |-> "none"]

PatternCall(c, cols, o) ==
    [entry |-> "analyze_citation_patterns", citations |-> c, columns |-> cols,
     tracked_queries |-> <<>>, competitor_domains |-> <<>>, hashSeed |-> 1,
     seeded_labels |-> o, calls |-> 1, argument |-> <<>>, other |-> "none"]

CompetitorCall(c, cols, k) ==
    [entry |-> "analyze_competitor_patterns", citations |-> c, columns |-> cols,
     tracked_queries |-> <<>>, competitor_domains |-> k, hashSeed |-> 1,
     seeded_labels |-> NoLabels, calls |-> 1, argument |-> <<>>, other |-> "none"]

\* a call of a method that takes one argument besides self
MethodCall(method, arg) ==
    [entry |-> method, citations |-> <<>>, columns |-> AllColumns,
     tracked_queries |-> <<>>, competitor_domains |-> <<>>, hashSeed |-> 1,
     seeded_labels |-> NoLabels, calls |-> 1, argument |-> arg, other |-> "none"]

\* the dicts carry every key, or every key but one
ColumnSets == {AllColumns} \cup {AllColumns \ {f} : f \in AllColumns}

\* every short citations list with every short tracked_queries list
ExhaustiveRecords ==
    {GapCitation(q, d, p) : q \in {QB, QC}, d \in {DomA, DomB}, p \in {0, 100}}

ExhaustiveCalls ==
    {GapCall(c, t, k, 1, NoLabels, 1) :
        c \in SeqsUpTo(ExhaustiveRecords, MaxCitations),
        t \in {<<>>, <<QC>>, <<QA, QC>>},
        k \in {<<>>, <<"A.com">>}}
    \cup
    {GapCall(c, t, <<"A.com">>, 1, NoLabels, 1) :
        c \in {<<>>, <<GapCitation(QB, DomA, 0)>>, <<GapCitation(QC, DomB, 100)>>},
        t \in SeqsUpTo({QA, QC}, MaxTracked)}

\* citations lists made of two blocks of equal records
BlockRecords ==
    {GapCitation(q, d, p) : q \in {QB, QC}, d \in {DomA, DomB}, p \in {0, 30, 100}}

BlockCalls ==
    {GapCall(Copies(r1, a) \o Copies(r2, b), <<QC, QB>>, <<"A.com">>, 1, NoLabels, 1) :
        r1 \in {r \in BlockRecords : r.query = QC}, r2 \in BlockRecords,
        a \in 1..MaxBlock, b \in 0..MaxBlock}

\* the same call made twice in one process, under every hash seed
RepeatedCalls ==
    {GapCall(<<r>>, t, <<"A.com">>, h, NoLabels, 2) :
        r \in ExhaustiveRecords,
        t \in SeqsUpTo({QA, QC}, MaxTracked),
        h \in 1..NumHashSeeds}

\* ten tracked queries: the topic-cluster finder runs
TenQueries ==
    <<QA, QB, QC, "ai tools", "How to rank", "seo", "ai seo",
      "best price guide", "why seo", "seo audit">>

\* ten tracked queries made of stop words only: the vectorizer raises
TenStopQueries ==
    <<"what is", "how to", "why", "when", "where", "which", "the", "what",
      "how", "is">>

ClusterCitations ==
    Copies(GapCitation(QC, DomA, 100), 3) \o Copies(GapCitation("seo", DomB, 0), 1)

ClusterCalls ==
    {GapCall(ClusterCitations, TenQueries, <<"A.com">>, 1, o, 2) :
        o \in LabelOutcomes(TenQueries, TopicClusterCount(TenQueries))}
    \cup
    {GapCall(ClusterCitations, TenStopQueries, <<"A.com">>, 1, NoLabels, 2)}

\* citations lists whose dicts lack one key, for the gap engine
SparseGapCalls ==
    {[GapCall(Copies(GapCitation(QB, DomA, 0), a), t, <<"A.com">>, 1,
              [raise |-> FALSE, label |-> [q \in Range(t) |-> 0]], 1)
        EXCEPT !.columns = cols] :
        a \in 1..3, t \in {<<QC, QB>>, TenQueries}, cols \in ColumnSets}

\* the records of the short citations lists of the pattern engine
PatternRecords ==
    {Citation(QC, DomA, 90, "google", "organic", 1, 1, {"type:article"}),
     Citation(QC, DomA, 40, "google", "featured_snippet", 5, 2, {"type:article"}),
     Citation(QB, DomB, 100, "perplexity", "organic", 0, 1, {}),
     Citation(QB, DomA, 0, "perplexity", "inline_citation", 2, 9,
              {"type:article", "lang:en"})}

ShortPatternCalls ==
    {PatternCall(c, cols, NoLabels) :
        c \in SeqsUpTo(PatternRecords, MaxPatternCitations), cols \in ColumnSets}

\* one record on each of seven consecutive days, then e more on day 1 and
\* f more on day 2
WeekOf(q1, q2, q3, e, f) ==
    [d \in 1..7 |->
        Citation(IF d % 2 = 0 THEN q1 ELSE q2,
                 IF d <= 4 THEN DomA ELSE DomB, 10 * d + 20,
                 IF d <= 5 THEN "google" ELSE "perplexity",
                 IF d <= 3 THEN "organic" ELSE "ai_overview", d - 1, d, {"lang:en"})]
    \o Copies(Citation(q3, DomB, 80, "perplexity", "organic", 2, 1, {}), e)
    \o Copies(Citation(q3, DomA, 60, "google", "organic", 3, 2, {}), f)

WeekLists == {WeekOf(QC, QB, QA, e, f) : e \in 0..MaxExtra, f \in 0..MaxExtra}

\* the outcomes of the seeded clustering of the queries of the rows
QueryLabelOutcomes(c) ==
    IF Len(c) < 10 THEN {NoLabels}
    ELSE LabelOutcomes(Column(c, "query"), Min(5, Len(c) \div 3))

WeekPatternCalls ==
    {PatternCall(c, cols, [raise |-> FALSE, label |-> [q \in {QA, QB, QC} |-> 0]]) :
        c \in WeekLists, cols \in ColumnSets}
    \cup
    UNION {{PatternCall(c, AllColumns, o) : o \in QueryLabelOutcomes(c)} : c \in WeekLists}
    \cup
    {PatternCall(WeekOf("what is", "how to", "the", e, e), AllColumns, NoLabels) :
        e \in 0..MaxExtra}

\* the records of the competitor analysis: those of the short pattern lists
\* and one whose source_domain is not lower-case
CompetitorRecords ==
    PatternRecords
        \cup {Citation(QA, "A.com", 70, "google", "organic", 1, 3, {})}

CompetitorDomainLists ==
    {<<>>, <<"A.com">>, <<"a.com", "b.com">>, <<"B.com", "c.com", "a.com">>,
     <<"a.com", "A.com">>}

CompetitorColumnSets ==
    {AllColumns} \cup {AllColumns \ {f} : f \in {"engine", "source_domain", "created_at"}}

CompetitorCalls ==
    {CompetitorCall(c, cols, k) :
        c \in SeqsUpTo(CompetitorRecords, MaxCompetitorCitations),
        cols \in CompetitorColumnSets, k \in CompetitorDomainLists}

\* calls during which another caller's call runs on the same analyzers
ConcurrentCalls ==
    {[x EXCEPT !.other = "start"] :
        x \in {PatternCall(c, AllColumns,
                           [raise |-> FALSE, label |-> [q \in {QA, QB, QC} |-> 0]]) :
                   c \in WeekLists}
              \cup {GapCall(<<GapCitation(QC, DomA, p)>>, <<QA, QC>>, <<"A.com">>, 1,
                            NoLabels, 1) : p \in {0, 100}}
              \cup {CompetitorCall(<<c>>, AllColumns, <<"a.com", "b.com">>) :
                       c \in PatternRecords}}

\* a gap as generate_gap_report reads it
ReportGap(query, score, effort) ==
    [query_text |-> query, gap_type |-> "weak_citations",
     opportunity_score |-> score, priority |-> PriorityOf(score),
     suggested_content_type |-> "article", estimated_effort |-> effort,
     reasoning |-> "few citations"]

ReportGaps ==
    {ReportGap(QC, score, effort) :
        score \in {Rat(5, 10), Rat(9, 10)}, effort \in {"low", "high"}}

\* every short gap list, and the lists of LongReport gaps of one kind
\* followed by one more gap
ReportCalls ==
    {MethodCall("generate_gap_report", gs) :
        gs \in SeqsUpTo(ReportGaps, MaxReportGaps)
                \cup {Copies(g, LongReport) \o <<h>> : g \in ReportGaps, h \in ReportGaps}}

\* a pattern as generate_pattern_insights reads it
InsightPattern(type, strength, engines) ==
    [pattern_id |-> <<type, Today>>, pattern_type |-> type, frequency |-> 3,
     strength |-> strength, domains |-> <<DomA, DomB>>, engines |-> engines,
     content_types |-> engines,
     examples |-> <<[content_type |-> "organic"]>>]

InsightPatterns ==
    {InsightPattern(type, Rat(strength, 100), <<"google">>) :
        type \in {"domain_frequency", "content_type_performance",
                  "engine_content_preference", "temporal_spikes",
                  "weekly_variation"},
        strength \in {65, 70, 80}}
    \cup {InsightPattern("engine_content_preference", Rat(1, 2), <<>>)}

InsightCalls ==
    {MethodCall("generate_pattern_insights", ps) :
        ps \in SeqsUpTo(InsightPatterns, MaxInsightPatterns)}

\* query parameters: tracking and other ones, one with a blank value, one
\* without '=', one key given twice, a value with an encoded blank
UrlParams ==
    {"utm_source=x", "ref=y", "id=7", "id=8", "page=", "flag", "q=a+b", "q=a%20b"}

UrlQueries == {JoinWith(ps, "&") : ps \in SeqsUpTo(UrlParams, MaxParams)}

Urls ==
    {"https://a.com/p" \o (IF q = "" THEN "" ELSE "?" \o q)
                      \o (IF f = "" THEN "" ELSE "#" \o f) :
        q \in UrlQueries, f \in {"", "top"}}
    \cup {"", "HTTPS://A.com/p?utm_source=x", "a.com/p?ref=y&id=7",
          "http://[a.com/p?utm_source=x&id=7", "https://a.com?gclid=1#top"}

\* raw citation dicts: one with only a url, for every url, and those with
\* every combination of a few positions, domains and prominence scores
RawCitations ==
    {[url |-> u] : u \in Urls}
    \cup {[url |-> "https://a.com/p", title |-> " best   seo tools ",
           position |-> p, source_domain |-> d, prominence_score |-> s] :
             p \in {-1, 0, 3}, d \in {"a.com", "A.com", ""}, s \in {-50, 0, 50, 150}}
    \cup {[position |-> 2]}

NormalizeCalls ==
    {MethodCall("normalize_citation", [citation_data |-> d, source_engine |-> "google"]) :
        d \in RawCitations}

\* SERP result dicts
SerpResults(keys, ai_sources, related_questions, kg_keys, kg_sources, organic_results) ==
    [keys |-> keys, ai_sources |-> ai_sources, related_questions |-> related_questions,
     kg_keys |-> kg_keys, kg_sources |-> kg_sources,
     organic_results |-> organic_results, raises |-> FALSE]

Reported(position) == [has_position |-> TRUE, position |-> position]
Unreported == [has_position |-> FALSE, position |-> 0]

\* organic results without a position and with positions in and outside of
\* every band of the prominence formula
OrganicResults ==
    {Unreported} \cup {Reported(p) : p \in {0 - MaxOrganicOffset, 0, 1, 3, 4, 10, 11}}

SerpCalls ==
    {MethodCall("google_collect_citations",
                SerpResults(keys, n, q, {}, 0, <<>>)) :
        keys \in SUBSET {"ai_overview", "answer_box", "related_questions"},
        n \in (0 - 1)..MaxAiSources,
        q \in SeqsUpTo(BOOLEAN, MaxQuestions)}
    \cup
    {MethodCall("google_collect_citations",
                SerpResults(keys, 0 - 1, <<>>, kg_keys, n, <<>>)) :
        keys \in {{}, {"knowledge_graph"}},
        kg_keys \in SUBSET {"source", "sources"},
        n \in 0..MaxKgSources}
    \cup
    {MethodCall("google_collect_citations",
                SerpResults(keys, 0 - 1, <<>>, {}, 0, o)) :
        keys \in {{}, {"organic_results"}},
        o \in SeqsUpTo(OrganicResults, MaxOrganic)
                \cup {Copies(Unreported, MaxResults) \o <<Reported(1)>>}}
    \cup
    {MethodCall("google_collect_citations",
                [SerpResults({"answer_box"}, 0 - 1, <<>>, {}, 0, <<>>)
                    EXCEPT !.raises = TRUE])}

\* the responses of the Perplexity API
ApiResponse(failed, choices, urls, content_urls, questions) ==
    [failed |-> failed, choices |-> choices, citations |-> urls,
     content_urls |-> content_urls, related_questions |-> questions]

ApiResponses ==
    {ApiResponse(TRUE, 0, <<>>, <<>>, <<>>), ApiResponse(FALSE, 0, <<>>, <<>>, <<>>)}
    \cup {ApiResponse(FALSE, 1, u, <<>>, q) :
             u \in {<<>>, <<"https://a.com/p">>},
             q \in {<<>>, <<"why seo">>, <<"why seo", "seo audit">>}}
    \cup {ApiResponse(FALSE, 1, <<"https://a.com/p">>, <<"https://b.com/q">>, <<>>)}

PerplexityCalls == {MethodCall("perplexity_collect_citations", QC)}

Calls ==
    ExhaustiveCalls
        \cup {x \in BlockCalls : Len(x.citations) <= MaxBlock}
        \cup RepeatedCalls
        \cup ClusterCalls
        \cup SparseGapCalls
        \cup ShortPatternCalls
        \cup WeekPatternCalls
        \cup CompetitorCalls
        \cup ConcurrentCalls
        \cup ReportCalls
        \cup InsightCalls
        \cup NormalizeCalls
        \cup SerpCalls
        \cup PerplexityCalls

Init ==
    /\ \E x \in Calls :
        /\ entry = x.entry
        /\ citations = x.citations
        /\ columns = x.columns
        /\ tracked_queries = x.tracked_queries
        /\ competitor_domains = x.competitor_domains
        /\ hashSeed = x.hashSeed
        /\ seeded_labels = x.seeded_labels
        /\ calls = x.calls
        /\ argument = x.argument
        /\ other = x.other
    /\ analyzer = NewAnalyzers
    /\ call_no = 1
    /\ pc = "start"
    /\ next_domain = 1
    /\ gaps = <<>>
    /\ patterns = <<>>
    /\ result = <<>>
    /\ first_result = <<>>
    /\ frames = <<>>

\* ------------------------------------------------------------------------
\* identify_content_gaps, one step per finder
\* ------------------------------------------------------------------------
\* the early return taken only when both arguments are empty
EmptyInputBoth(cits, tracked) == cits = <<>> /\ tracked = <<>>

\* if not citations or not tracked_queries: return []
EmptyInput(cits, tracked) == cits = <<>> \/ tracked = <<>>

EnterIdentifyContentGaps ==
    /\ pc = "start"
    /\ entry = "identify_content_gaps"
    /\ IF EmptyInput(citations, tracked_queries)
       THEN /\ pc' = "done"
            /\ result' = <<>>
            /\ UNCHANGED gaps
       ELSE /\ pc' = "no_citation_gaps"
            /\ gaps' = <<>>
            /\ UNCHANGED result
    /\ UNCHANGED <<inputs, frames, call_no, patterns, first_result>>

StepNoCitationGaps ==
    /\ pc = "no_citation_gaps"
    /\ gaps' = gaps \o FindNoCitationGaps(DataFrame, tracked_queries)
    /\ pc' = "weak_citation_gaps"
    /\ UNCHANGED <<inputs, frames, call_no, patterns, result, first_result>>

StepWeakCitationGaps ==
    /\ pc = "weak_citation_gaps"
    /\ gaps' = gaps \o FindWeakCitationGaps(DataFrame)
    /\ pc' = "competitor_dominated_gaps"
    /\ UNCHANGED <<inputs, frames, call_no, patterns, result, first_result>>

StepCompetitorDominatedGaps ==
    /\ pc = "competitor_dominated_gaps"
    /\ gaps' = gaps \o FindCompetitorDominatedGaps(DataFrame, competitor_domains)
    /\ pc' = "topic_cluster_gaps"
    /\ UNCHANGED <<inputs, frames, call_no, patterns, result, first_result>>

StepTopicClusterGaps ==
    /\ pc = "topic_cluster_gaps"
    /\ \E rng_draw \in RngDraws :
          LET outcome == KMeansFitPredict(rng_draw)
              raises == /\ Len(tracked_queries) >= 10
                        /\ ClusteringRaises(tracked_queries, outcome)
          IN IF TopicClusterEscapes(raises)
             THEN /\ pc' = "raised"
                  /\ UNCHANGED gaps
             ELSE /\ pc' = "question_variation_gaps"
                  /\ gaps' = gaps \o FindTopicClusterGaps(DataFrame, tracked_queries,
                                                          outcome)
    /\ UNCHANGED <<inputs, frames, call_no, patterns, result, first_result>>

StepQuestionVariationGaps ==
    /\ pc = "question_variation_gaps"
    /\ gaps' = gaps \o FindQuestionVariationGaps(DataFrame, tracked_queries)
    /\ pc' = "score_and_prioritize"
    /\ UNCHANGED <<inputs, frames, call_no, patterns, result, first_result>>

\* the scoring pass adjusts and sorts the list gaps in place and returns it
StepScoreAndPrioritize ==
    /\ pc = "score_and_prioritize"
    /\ gaps' = ScoreAndPrioritizeGaps(gaps)
    /\ result' = gaps'
    /\ pc' = "done"
    /\ UNCHANGED <<inputs, frames, call_no, patterns, first_result>>

\* the caller makes the same call once more, in the same process
CallAgain ==
    /\ pc = "done"
    /\ call_no < calls
    /\ call_no' = call_no + 1
    /\ first_result' = result
    /\ result' = <<>>
    /\ gaps' = <<>>
    /\ pc' = "start"
    /\ UNCHANGED <<inputs, frames, patterns>>

\* the caller makes the same call once more, in a fresh interpreter process:
\* str hashes are salted per process (PYTHONHASHSEED unset), the arguments
\* and the seeded clustering are the same
CallInNewProcess ==
    /\ pc = "done"
    /\ call_no < calls
    /\ call_no' = call_no + 1
    /\ hashSeed' \in 1..NumHashSeeds
    /\ first_result' = result
    /\ result' = <<>>
    /\ gaps' = <<>>
    /\ pc' = "start"
    /\ analyzer' = NewAnalyzers
    /\ UNCHANGED <<frames, entry, citations, columns, tracked_queries, competitor_domains,
                   seeded_labels, calls, argument, other, next_domain, patterns>>

\* ------------------------------------------------------------------------
\* analyze_citation_patterns, one step per sub-scan
\* ------------------------------------------------------------------------
EnterAnalyzeCitationPatterns ==
    /\ pc = "start"
    /\ entry = "analyze_citation_patterns"
    /\ IF citations = <<>>
       THEN /\ pc' = "done"
            /\ result' = <<>>
            /\ UNCHANGED patterns
       ELSE /\ pc' = "domain_patterns"
            /\ patterns' = <<>>
            /\ UNCHANGED result
    /\ UNCHANGED <<inputs, frames, call_no, gaps, first_result>>

\* a sub-scan without a try block: its exception leaves the entry point
SubScan(here, scan, next) ==
    /\ pc = here
    /\ IF scan.raised
       THEN /\ pc' = "raised"
            /\ UNCHANGED patterns
       ELSE /\ pc' = next
            /\ patterns' = patterns \o scan.out
    /\ UNCHANGED <<inputs, frames, call_no, gaps, result, first_result>>

StepDomainPatterns ==
    SubScan("domain_patterns", AnalyzeDomainPatterns(DataFrame),
            "content_type_patterns")

StepContentTypePatterns ==
    SubScan("content_type_patterns", AnalyzeContentTypePatterns(DataFrame),
            "position_patterns")

StepPositionPatterns ==
    SubScan("position_patterns", AnalyzePositionPatterns(DataFrame),
            "temporal_patterns")

StepTemporalPatterns ==
    SubScan("temporal_patterns", AnalyzeTemporalPatterns(DataFrame),
            "engine_patterns")

StepEnginePatterns ==
    SubScan("engine_patterns", AnalyzeEnginePatterns(DataFrame),
            "content_feature_patterns")

StepContentFeaturePatterns ==
    SubScan("content_feature_patterns", AnalyzeContentFeaturePatterns(DataFrame),
            "query_similarity_patterns")

\* the last sub-scan; the entry point then returns patterns
StepQuerySimilarityPatterns ==
    /\ pc = "query_similarity_patterns"
    /\ \E rng_draw \in RngDraws :
          LET outcome == KMeansFitPredict(rng_draw)
          IN IF QuerySimilarityEscapes(QueryClusteringRaises(DataFrame, outcome))
             THEN /\ pc' = "raised"
                  /\ UNCHANGED <<patterns, result>>
             ELSE /\ pc' = "done"
                  /\ patterns' = patterns
                         \o AnalyzeQuerySimilarityPatterns(DataFrame, outcome)
                  /\ result' = patterns'
    /\ UNCHANGED <<inputs, frames, call_no, gaps, first_result>>

\* ------------------------------------------------------------------------
\* analyze_competitor_patterns, one step per listed domain
\* ------------------------------------------------------------------------
EnterAnalyzeCompetitorPatterns ==
    /\ pc = "start"
    /\ entry = "analyze_competitor_patterns"
    /\ IF citations = <<>> \/ competitor_domains = <<>>
       THEN /\ pc' = "done"
            /\ result' = <<>>
            /\ UNCHANGED patterns
       ELSE /\ pc' = "competitor_loop"
            /\ patterns' = <<>>
            /\ UNCHANGED result
    /\ UNCHANGED <<inputs, frames, call_no, gaps, first_result>>

\* for domain in competitor_domains: ... competitor_patterns.append(...)
StepCompetitorDomain ==
    /\ pc = "competitor_loop"
    /\ next_domain <= Len(competitor_domains)
    /\ patterns' = patterns
           \o CompetitorPatternsFor(DataFrame, competitor_domains[next_domain])
    /\ next_domain' = next_domain + 1
    /\ UNCHANGED <<frames, entry, citations, columns, tracked_queries, competitor_domains,
                   hashSeed, seeded_labels, calls, argument, analyzer, other,
                   call_no, pc, gaps, result, first_result>>

\* return competitor_patterns
ReturnCompetitorPatterns ==
    /\ pc = "competitor_loop"
    /\ next_domain > Len(competitor_domains)
    /\ result' = patterns
    /\ pc' = "done"
    /\ UNCHANGED <<inputs, frames, call_no, gaps, patterns, first_result>>

\* ------------------------------------------------------------------------
\* Another caller's concurrent call of one of the three entry points on the
\* same analyzer instances, with its own arguments.  Its DataFrame, lists and
\* result objects are its own locals; what it shares with the call in
\* progress is the analyzers' fields.
\* ------------------------------------------------------------------------
\* FieldsAfterStep for a call that keeps a tuned threshold on the analyzer
FieldsAfterStepTuned(fields) ==
    [fields EXCEPT !.min_pattern_frequency = fields.min_pattern_frequency + 1]

\* the analyzers' fields after any statement of an entry point, a finder or
\* a sub-scan: none of them assigns self.*
FieldsAfterStep(fields) == fields

\* the other call enters: the early-return test and pd.DataFrame(citations)
OtherCallEnters ==
    /\ other = "start"
    /\ other' = "running"
    /\ analyzer' = FieldsAfterStep(analyzer)
    /\ UNCHANGED <<frames, entry, citations, columns, tracked_queries, competitor_domains,
                   hashSeed, seeded_labels, calls, argument, call_no, pc,
                   next_domain, gaps, patterns, result, first_result>>

\* the other call runs its finders or sub-scans and returns its own list
OtherCallReturns ==
    /\ other = "running"
    /\ other' = "done"
    /\ analyzer' = FieldsAfterStep(analyzer)
    /\ UNCHANGED <<frames, entry, citations, columns, tracked_queries, competitor_domains,
                   hashSeed, seeded_labels, calls, argument, call_no, pc,
                   next_domain, gaps, patterns, result, first_result>>

\* ------------------------------------------------------------------------
\* The report and insights methods and the normalizer: one step each
\* ------------------------------------------------------------------------
Method(name, value) ==
    /\ pc = "start"
    /\ entry = name
    /\ result' = value
    /\ pc' = "done"
    /\ UNCHANGED <<inputs, frames, call_no, gaps, patterns, first_result>>

StepGenerateGapReport == Method("generate_gap_report", GenerateGapReport(argument))

StepGeneratePatternInsights ==
    Method("generate_pattern_insights", GeneratePatternInsights(argument))

StepNormalizeCitation ==
    Method("normalize_citation",
           NormalizeCitation(argument.citation_data, argument.source_engine))

StepGoogleCollectCitations ==
    Method("google_collect_citations", GoogleCollectCitations(argument))

\* PerplexityCollector.collect_citations up to the return of the post, and
\* _extract_citations_from_response up to its loop over the related
\* questions: the call made by the caller, or the one made for the next
\* related question of the innermost call in progress
PerplexityCollectCitations ==
    /\ entry = "perplexity_collect_citations"
    /\ pc \in {"start", "call"}
    /\ \E response \in ApiResponses :
          LET query == IF frames = <<>> THEN argument
                       ELSE Head(frames[Len(frames)].pending)
          IN IF ReturnsEmpty(response)
             THEN ReturnTo(frames, <<>>)
             ELSE /\ frames' = Append(frames,
                                      [query |-> query,
                                       citations |-> ResponseCitations(response, query),
                                       pending |-> response.related_questions])
                  /\ pc' = "extract"
                  /\ UNCHANGED result
    /\ UNCHANGED <<inputs, call_no, gaps, patterns, first_result>>

\* the loop over response["related_questions"] reaches a question and calls
\* collect_citations for it.  The code sets no limit to the nesting; the
\* model follows the calls MaxDepth deep (the interpreter's own recursion
\* limit is not modelled)
PerplexityAskRelatedQuestion ==
    /\ entry = "perplexity_collect_citations"
    /\ pc = "extract"
    /\ frames[Len(frames)].pending # <<>>
    /\ Len(frames) < MaxDepth
    /\ pc' = "call"
    /\ UNCHANGED <<inputs, frames, call_no, gaps, patterns, result, first_result>>

\* the loop is over: _extract_citations_from_response returns the list, and
\* so does the collect_citations that called it
PerplexityReturn ==
    /\ entry = "perplexity_collect_citations"
    /\ pc = "extract"
    /\ frames[Len(frames)].pending = <<>>
    /\ ReturnTo(SubSeq(frames, 1, Len(frames) - 1), frames[Len(frames)].citations)
    /\ UNCHANGED <<inputs, call_no, gaps, patterns, first_result>>

Next ==
    \/ EnterIdentifyContentGaps
    \/ StepNoCitationGaps
    \/ StepWeakCitationGaps
    \/ StepCompetitorDominatedGaps
    \/ StepTopicClusterGaps
    \/ StepQuestionVariationGaps
    \/ StepScoreAndPrioritize
    \/ CallAgain
    \/ CallInNewProcess
    \/ EnterAnalyzeCitationPatterns
    \/ StepDomainPatterns
    \/ StepContentTypePatterns
    \/ StepPositionPatterns
    \/ StepTemporalPatterns
    \/ StepEnginePatterns
    \/ StepContentFeaturePatterns
    \/ StepQuerySimilarityPatterns
    \/ EnterAnalyzeCompetitorPatterns
    \/ StepCompetitorDomain
    \/ ReturnCompetitorPatterns
    \/ OtherCallEnters
    \/ OtherCallReturns
    \/ StepGenerateGapReport
    \/ StepGeneratePatternInsights
    \/ StepNormalizeCitation
    \/ StepGoogleCollectCitations
    \/ PerplexityCollectCitations
    \/ PerplexityAskRelatedQuestion
    \/ PerplexityReturn

Spec == Init /\ [][Next]_vars

\* ------------------------------------------------------------------------
\* Properties
\* ------------------------------------------------------------------------
GapsReturned == entry = "identify_content_gaps" /\ pc = "done"
PatternsReturned == entry = "analyze_citation_patterns" /\ pc = "done"

InUnitInterval(x) == RLe(RZero, x) /\ RLe(x, ROne)

\* the CitationRecord invariant: prominence_score in [0,1], position >= 0
ValidRecords ==
    \A i \in DOMAIN citations :
        /\ citations[i].prominence_score \in 0..100
        /\ citations[i].position >= 0

\* C1: for non-empty citations with prominence_score in [0,1] and non-empty
\* tracked_queries, every gap returned by identify_content_gaps has
\* 0 <= opportunity_score <= 1, boosted or not.
C1_ScoreInUnitInterval ==
    (GapsReturned /\ citations # <<>> /\ tracked_queries # <<>> /\ ValidRecords)
        => \A i \in DOMAIN result : InUnitInterval(result[i].opportunity_score)

\* C2: in the list returned by identify_content_gaps, priority is a function
\* of the final opportunity_score only: high iff score >= 0.8, medium iff
\* 0.5 <= score < 0.8, low iff score < 0.5.
C2_PriorityFromFinalScore ==
    GapsReturned =>
        \A i \in DOMAIN result :
            LET score == result[i].opportunity_score
                priority == result[i].priority
            IN /\ priority \in {"high", "medium", "low"}
               /\ (priority = "high") <=> RLe(Rat(8, 10), score)
               /\ (priority = "medium") <=>
                      (RLe(Rat(5, 10), score) /\ RLt(score, Rat(8, 10)))
               /\ (priority = "low") <=> RLt(score, Rat(5, 10))

\* a returned list where the scoring pass lowered a priority the finder had
\* set (weak_citations: high -> medium) and raised another (low_prominence:
\* medium -> high)
C2_Witness ==
    /\ GapsReturned
    /\ \E i \in DOMAIN result :
           result[i].gap_id[1] = "weak_citations" /\ result[i].priority = "medium"
    /\ \E i \in DOMAIN result :
           result[i].gap_id[1] = "low_prominence" /\ result[i].priority = "high"

\* C3: for citations with prominence_score in [0,1] and position >= 0, every
\* CitationPattern any sub-scan of analyze_citation_patterns adds, and hence
\* every pattern returned, has 0 <= strength <= 1.
C3_StrengthInUnitInterval ==
    (entry = "analyze_citation_patterns" /\ ValidRecords) =>
        /\ \A i \in DOMAIN patterns : InUnitInterval(patterns[i].strength)
        /\ \A i \in DOMAIN result : InUnitInterval(result[i].strength)

\* a returned list with a weekly_variation pattern at the clamp (strength 1)
\* next to patterns of four other sub-scans
C3_Witness ==
    /\ PatternsReturned
    /\ \E i \in DOMAIN result :
           result[i].pattern_type = "weekly_variation" /\ result[i].strength = ROne
    /\ {"domain_frequency", "domain_prominence", "position_consistency",
        "engine_content_preference"}
           \subseteq {result[i].pattern_type : i \in DOMAIN result}


\* no record of citations carries a tracked query
NoneTracked ==
    \A i \in DOMAIN citations : \A j \in DOMAIN tracked_queries :
        citations[i].query # tracked_queries[j]

\* the gaps of gap_type no_citations in a list, in order
NoCitationsIn(gs) ==
    SelectIdx(gs, [i \in 1..Len(gs) |-> gs[i].gap_type = "no_citations"])

C5_EmptyInputEmptyResult ==
    /\ (entry = "identify_content_gaps"
            /\ (citations = <<>> \/ tracked_queries = <<>>))
           => (pc \in {"start", "done"} /\ result = <<>>)
    /\ (entry = "analyze_citation_patterns" /\ citations = <<>>)
           => (pc \in {"start", "done"} /\ result = <<>>)

\* identify_content_gaps has returned for non-empty citations and an empty
\* tracked_queries list
C5_Witness ==
    /\ GapsReturned
    /\ citations # <<>>
    /\ tracked_queries = <<>>
    /\ result = <<>>

\* the empty call of the other entry point has returned
C5_PatternWitness == PatternsReturned /\ citations = <<>> /\ result = <<>>

\* C6: for non-empty citations whose records all lack one expected field,
\* neither entry point raises.
C6_NoExceptionOnAbsentField ==
    (citations # <<>> /\ columns # AllColumns) => pc # "raised"

\* identify_content_gaps alone does not raise on such input
C6_GapEngineNoException ==
    (entry = "identify_content_gaps" /\ columns # AllColumns) => pc # "raised"


\* the gaps of the four sibling finders, in the order they run
SiblingGaps ==
    FindNoCitationGaps(DataFrame, tracked_queries)
        \o FindWeakCitationGaps(DataFrame)
        \o FindCompetitorDominatedGaps(DataFrame, competitor_domains)
        \o FindQuestionVariationGaps(DataFrame, tracked_queries)

\* the patterns of the six sibling sub-scans, in the order they run
SiblingPatterns ==
    AnalyzeDomainPatterns(DataFrame).out
        \o AnalyzeContentTypePatterns(DataFrame).out
        \o AnalyzePositionPatterns(DataFrame).out
        \o AnalyzeTemporalPatterns(DataFrame).out
        \o AnalyzeEnginePatterns(DataFrame).out
        \o AnalyzeContentFeaturePatterns(DataFrame).out

\* the vectorization or clustering step of the topic-cluster finder raises
TopicClusteringRaises ==
    /\ entry = "identify_content_gaps"
    /\ citations # <<>>
    /\ Len(tracked_queries) >= 10
    /\ ClusteringRaises(tracked_queries, seeded_labels)

\* the vectorization or clustering step of the query-similarity sub-scan
\* raises, on records that carry every field
QuerySimilarityRaises ==
    /\ entry = "analyze_citation_patterns"
    /\ citations # <<>>
    /\ columns = AllColumns
    /\ QueryClusteringRaises(DataFrame, seeded_labels)

\* C7: when vectorization or clustering raises inside the topic-cluster
\* finder (the query-similarity sub-scan), the exception does not leave the
\* top-level call, the finder (sub-scan) adds nothing, and the call returns
\* the gaps (patterns) of all its siblings, those before and those after.
C7_ClusteringFailureIsLocal ==
    /\ TopicClusteringRaises =>
        /\ pc # "raised"
        /\ pc = "question_variation_gaps" =>
               gaps = FindNoCitationGaps(DataFrame, tracked_queries)
                          \o FindWeakCitationGaps(DataFrame)
                          \o FindCompetitorDominatedGaps(DataFrame, competitor_domains)
        /\ pc = "done" => result = ScoreAndPrioritizeGaps(SiblingGaps)
    /\ QuerySimilarityRaises =>
        /\ pc # "raised"
        /\ pc = "done" => result = SiblingPatterns

\* the clustering raised on ten tracked queries, and the returned list holds
\* gaps of a finder that ran before and of the finder that ran after
C7_Witness ==
    /\ GapsReturned
    /\ TopicClusteringRaises
    /\ seeded_labels.raise
    /\ \E i \in DOMAIN result : result[i].gap_type = "no_citations"
    /\ \E i \in DOMAIN result : result[i].gap_type = "question_variation"

\* the vectorizer raised in the query-similarity sub-scan, and the patterns
\* of the siblings are returned
C7_PatternWitness ==
    /\ PatternsReturned
    /\ QuerySimilarityRaises
    /\ result # <<>>

\* C8: two calls of identify_content_gaps with identical citations,
\* tracked_queries and competitor_domains return equal lists: same gaps,
\* same gap_ids, same scores, same order.
C8_SecondCallReturnsSameList ==
    (GapsReturned /\ call_no = 2) => result = first_result

\* the finder a returned gap comes from, by the order the finders run
FinderRank(gap) ==
    CASE gap.gap_id[1] \in {"no_citations", "weak_citations"} -> 1
      [] gap.gap_id[1] = "low_prominence" -> 2
      [] gap.gap_id[1] = "competitor_dominated" -> 3
      [] gap.gap_id[1] = "topic_cluster_gap" -> 4
      [] gap.gap_id[1] = "question_variation" -> 5

\* the first position of a query in tracked_queries
TrackedIndex(query) ==
    CHOOSE i \in DOMAIN tracked_queries :
        /\ tracked_queries[i] = query
        /\ \A j \in 1..(i - 1) : tracked_queries[j] # query

SameScore(g, h) ==
    /\ RLe(g.opportunity_score, h.opportunity_score)
    /\ RLe(h.opportunity_score, g.opportunity_score)

\* C9: the list returned by identify_content_gaps is sorted by
\* non-increasing final opportunity_score, and two gaps of equal final score
\* appear in discovery order: by finder (no/weak-citation, low-prominence,
\* competitor-dominated, topic-cluster, question-variation), and within the
\* no/weak-citation finder by position in tracked_queries.
C9_SortedWithStableTies ==
    GapsReturned =>
        \A i \in DOMAIN result : \A j \in DOMAIN result :
            i < j =>
                /\ RLe(result[j].opportunity_score, result[i].opportunity_score)
                /\ SameScore(result[i], result[j]) =>
                    /\ FinderRank(result[i]) <= FinderRank(result[j])
                    /\ (FinderRank(result[i]) = 1 /\ FinderRank(result[j]) = 1) =>
                           TrackedIndex(result[i].query_text)
                               <= TrackedIndex(result[j].query_text)

\* a returned list with a tie between two finders and a tie between two
\* tracked queries inside the no/weak-citation finder, and a strict descent
C9_Witness ==
    /\ GapsReturned
    /\ \E i \in DOMAIN result : \E j \in DOMAIN result :
           /\ i < j
           /\ SameScore(result[i], result[j])
           /\ FinderRank(result[i]) < FinderRank(result[j])
    /\ \E i \in DOMAIN result : \E j \in DOMAIN result :
           /\ i < j
           /\ SameScore(result[i], result[j])
           /\ FinderRank(result[i]) = 1
           /\ FinderRank(result[j]) = 1
           /\ result[i].query_text # result[j].query_text
    /\ \E i \in DOMAIN result : \E j \in DOMAIN result :
           i < j /\ ~SameScore(result[i], result[j])

\* the competitor_dominated gaps of a list for a query
CompetitorGapsFor(gs, query) ==
    {i \in DOMAIN gs :
        gs[i].gap_type = "competitor_dominated" /\ gs[i].query_text = query}

\* C10: once _find_competitor_dominated_gaps has run, every query with at
\* least 3 records and competitor share >= 0.6 has exactly one
\* competitor_dominated gap, with difficulty_score = 0.6 + 0.3 * share
\* (>= 0.6); every other query has none.
C10_CompetitorDominatedGaps ==
    (/\ entry = "identify_content_gaps"
     /\ {"query", "source_domain"} \subseteq columns
     /\ pc \in {"topic_cluster_gaps", "question_variation_gaps",
                "score_and_prioritize"}) =>
        /\ \A k \in DOMAIN gaps :
               gaps[k].gap_type = "competitor_dominated" =>
                   \E i \in DOMAIN citations : citations[i].query = gaps[k].query_text
        /\ \A r \in DOMAIN citations :
            LET query == citations[r].query
                records == {i \in DOMAIN citations : citations[i].query = query}
                competitors ==
                    {Lower(competitor_domains[k]) : k \in DOMAIN competitor_domains}
                theirs == {i \in records : citations[i].source_domain \in competitors}
                share == Rat(Cardinality(theirs), Cardinality(records))
                found == CompetitorGapsFor(gaps, query)
            IN IF Cardinality(records) >= 3 /\ RLe(Rat(6, 10), share)
               THEN /\ Cardinality(found) = 1
                    /\ \A i \in found :
                           /\ gaps[i].difficulty_score
                                  = RAdd(Rat(6, 10), RMul(Rat(3, 10), share))
                           /\ RLe(Rat(6, 10), gaps[i].difficulty_score)
               ELSE found = {}

\* the finder has emitted a gap at the threshold: share 3/5, difficulty 0.78
C10_Witness ==
    /\ entry = "identify_content_gaps"
    /\ pc = "topic_cluster_gaps"
    /\ \E i \in DOMAIN gaps :
           /\ gaps[i].gap_type = "competitor_dominated"
           /\ gaps[i].difficulty_score = Rat(39, 50)

\* the finder has emitted a gap for a query whose records all belong to
\* competitors: difficulty 0.9
C10_AllCompetitorsWitness ==
    /\ entry = "identify_content_gaps"
    /\ pc = "topic_cluster_gaps"
    /\ \E i \in DOMAIN gaps :
           /\ gaps[i].gap_type = "competitor_dominated"
           /\ gaps[i].difficulty_score = Rat(9, 10)


\* the records of citations that carry the query
RecordsOf(query) == {i \in DOMAIN citations : citations[i].query = query}

\* the sum of prominence_score (in hundredths) over a set of records
RECURSIVE ProminenceSum(_)
ProminenceSum(records) ==
    IF records = {} THEN 0
    ELSE LET i == CHOOSE i \in records : TRUE
         IN citations[i].prominence_score + ProminenceSum(records \ {i})

\* at least 3 records carry the query and their mean prominence is >= 0.5
WellCited(query) ==
    /\ Cardinality(RecordsOf(query)) >= 3
    /\ 2 * ProminenceSum(RecordsOf(query)) >= 100 * Cardinality(RecordsOf(query))

\* C11: if a tracked query has at least 3 matching records with mean
\* prominence_score >= 0.5, the list returned by identify_content_gaps holds
\* no gap of type no_citations or weak_citations for that query.
C11_NoGapForWellCitedQuery ==
    (GapsReturned /\ {"query", "prominence_score"} \subseteq columns) =>
        \A j \in DOMAIN tracked_queries :
            WellCited(tracked_queries[j]) =>
                \A i \in DOMAIN result :
                    ~(/\ result[i].gap_type \in {"no_citations", "weak_citations"}
                      /\ result[i].query_text = tracked_queries[j])

\* a returned, non-empty list for a tracked query whose records have mean
\* prominence exactly 0.5
C11_Witness ==
    /\ GapsReturned
    /\ {"query", "prominence_score"} \subseteq columns
    /\ result # <<>>
    /\ \E j \in DOMAIN tracked_queries :
           /\ WellCited(tracked_queries[j])
           /\ 2 * ProminenceSum(RecordsOf(tracked_queries[j]))
                  = 100 * Cardinality(RecordsOf(tracked_queries[j]))


\* the source_domains that occur in at least 3 records
QualifyingDomains ==
    IF "source_domain" \notin columns THEN {}
    ELSE {d \in {citations[i].source_domain : i \in DOMAIN citations} :
             Cardinality({i \in DOMAIN citations : citations[i].source_domain = d}) >= 3}

\* the positions of the patterns of a type in a list
PatternsOfType(ps, type) == {i \in DOMAIN ps : ps[i].pattern_type = type}

\* the domain sub-scan has returned
DomainScanReturned ==
    /\ entry = "analyze_citation_patterns"
    /\ citations # <<>>
    /\ pc \notin {"start", "domain_patterns", "raised"}

C12_TwoDomainsWitness ==
    /\ PatternsReturned
    /\ \E i \in DOMAIN result :
           /\ result[i].pattern_type = "domain_frequency"
           /\ result[i].frequency = 2
           /\ result[i].strength = Rat(2, 10)


\* C13: within one list returned by identify_content_gaps no two gaps share
\* a gap_id, for every input, tracked_queries with a repeated query included.
C13_GapIdUnique ==
    GapsReturned =>
        \A i \in DOMAIN result : \A j \in DOMAIN result :
            i # j => result[i].gap_id # result[j].gap_id

\* the same for tracked_queries lists without a repeated query
C13_GapIdUniqueForDistinctQueries ==
    (GapsReturned /\ Len(Unique(tracked_queries)) = Len(tracked_queries)) =>
        \A i \in DOMAIN result : \A j \in DOMAIN result :
            i # j => result[i].gap_id # result[j].gap_id


\* no two patterns of a list share a pattern_id
DistinctPatternIds(ps) ==
    \A i \in DOMAIN ps : \A j \in DOMAIN ps :
        i # j => ps[i].pattern_id # ps[j].pattern_id

\* C14: within one list returned by analyze_citation_patterns no two
\* patterns share a pattern_id, the per-engine and per-cluster patterns
\* included.
C14_PatternIdUnique ==
    entry = "analyze_citation_patterns" =>
        DistinctPatternIds(patterns) /\ DistinctPatternIds(result)

\* a returned list with two engine_preference patterns and two
\* query_cluster patterns
C14_Witness ==
    /\ PatternsReturned
    /\ Cardinality(PatternsOfType(result, "engine_content_preference")) >= 2
    /\ Cardinality(PatternsOfType(result, "query_similarity")) >= 2

\* ------------------------------------------------------------------------
\* C17
\* ------------------------------------------------------------------------
CompetitorsReturned == entry = "analyze_competitor_patterns" /\ pc = "done"

\* the listed domains with at least one record whose source_domain equals
\* their lower-cased form, in competitor_domains order
MatchedDomains ==
    SelectIdx(competitor_domains,
              [i \in 1..Len(competitor_domains) |->
                  \E j \in 1..Len(citations) :
                      /\ "source_domain" \in columns
                      /\ citations[j].source_domain = Lower(competitor_domains[i])])

\* the number of records of a domain (already lower-cased) on an engine
EngineRecordCount(domain, engine) ==
    Cardinality({j \in 1..Len(citations) :
                    /\ citations[j].source_domain = domain
                    /\ citations[j].engine = engine})

DomainRecordCount(domain) ==
    Cardinality({j \in 1..Len(citations) : citations[j].source_domain = domain})

DominanceSum(dominance) ==
    RSumSeq([i \in 1..Len(SetToSeq(DOMAIN dominance)) |->
                dominance[SetToSeq(DOMAIN dominance)[i]]])

\* the competitor_domain fields of the result are the matched domains, in order
ReturnsMatchedDomainsInOrder ==
    CompetitorsReturned =>
        /\ Len(result) = Len(MatchedDomains)
        /\ \A i \in 1..Len(result) : result[i].competitor_domain = MatchedDomains[i]

\* C17 as stated: analyze_competitor_patterns returns, in competitor_domains
\* order, one pattern per listed domain whose lower-cased form is the
\* source_domain of a record and none for the others, and in each pattern
\* engines_dominance holds the per-engine record counts over the record
\* total of the domain and sums to 1
C17_CompetitorPatternsPerMatchedDomain ==
    /\ ReturnsMatchedDomainsInOrder
    /\ CompetitorsReturned =>
          \A i \in 1..Len(result) :
              LET d == Lower(result[i].competitor_domain)
                  dominance == result[i].engines_dominance
              IN /\ \A e \in DOMAIN dominance :
                        dominance[e] = Rat(EngineRecordCount(d, e), DomainRecordCount(d))
                 /\ DominanceSum(dominance) = ROne

\* C17 amended: the same, where the engines_dominance part is claimed for
\* records that carry an engine key; without it engines_dominance is empty
C17_DominanceWhenEngineKeyPresent ==
    /\ ReturnsMatchedDomainsInOrder
    /\ CompetitorsReturned =>
          \A i \in 1..Len(result) :
              LET d == Lower(result[i].competitor_domain)
                  dominance == result[i].engines_dominance
              IN IF "engine" \in columns
                 THEN /\ DOMAIN dominance =
                            {citations[j].engine : j \in {k \in 1..Len(citations) :
                                                   citations[k].source_domain = d}}
                      /\ \A e \in DOMAIN dominance :
                            dominance[e] =
                                Rat(EngineRecordCount(d, e), DomainRecordCount(d))
                      /\ DominanceSum(dominance) = ROne
                 ELSE dominance = <<>>

\* a listed domain is skipped, and a returned domain has records on two
\* engines
C17_Witness ==
    /\ CompetitorsReturned
    /\ 1 <= Len(result)
    /\ Len(result) < Len(competitor_domains)
    /\ \E i \in 1..Len(result) :
          Cardinality(DOMAIN result[i].engines_dominance) = 2

\* the records carry no engine key and a pattern is returned
C17_NoEngineKeyWitness ==
    /\ CompetitorsReturned
    /\ "engine" \notin columns
    /\ Len(result) >= 1

\* ------------------------------------------------------------------------
\* C15
\* ------------------------------------------------------------------------
\* the list the call in progress returns when no other call runs
RunAloneResult ==
    CASE entry = "identify_content_gaps" ->
            IF EmptyInput(citations, tracked_queries) THEN <<>>
            ELSE ScoreAndPrioritizeGaps(
                     FindNoCitationGaps(DataFrame, tracked_queries)
                         \o FindWeakCitationGaps(DataFrame)
                         \o FindCompetitorDominatedGaps(DataFrame, competitor_domains)
                         \o FindTopicClusterGaps(DataFrame, tracked_queries,
                                                 seeded_labels)
                         \o FindQuestionVariationGaps(DataFrame, tracked_queries))
      [] entry = "analyze_citation_patterns" ->
            IF citations = <<>> THEN <<>>
            ELSE SiblingPatterns
                     \o AnalyzeQuerySimilarityPatterns(DataFrame, seeded_labels)
      [] entry = "analyze_competitor_patterns" ->
            IF citations = <<>> \/ competitor_domains = <<>> THEN <<>>
            ELSE Flatten([i \in 1..Len(competitor_domains) |->
                            CompetitorPatternsFor(DataFrame, competitor_domains[i])])

AnalysisReturned ==
    /\ pc = "done"
    /\ entry \in {"identify_content_gaps", "analyze_citation_patterns",
                  "analyze_competitor_patterns"}

\* the analyzers' fields are those __init__ gave them, and a call that has
\* returned, with another call at any position, returned its run-alone list
FieldsKeptAndResultAsAlone ==
    /\ analyzer = NewAnalyzers
    /\ AnalysisReturned /\ call_no = 1 => result = RunAloneResult

\* no step of either call changes the caller's argument lists
ArgumentsKept ==
    /\ citations' = citations
    /\ columns' = columns
    /\ tracked_queries' = tracked_queries
    /\ competitor_domains' = competitor_domains

C15_GapWitness ==
    /\ AnalysisReturned
    /\ entry = "identify_content_gaps"
    /\ other = "done"
    /\ result # <<>>

\* ------------------------------------------------------------------------
\* C16
\* ------------------------------------------------------------------------
ReportReturned ==
    entry = "generate_gap_report" /\ pc = "done" /\ argument # <<>>

\* how many elements of a sequence of scored entries have the score
ScoreCount(entries, score) ==
    Cardinality({i \in 1..Len(entries) : entries[i].opportunity_score = score})

\* the (at most 10) highest scored of the gaps passed in
HighestScored(gs) == FirstN(SortGaps(gs), 10)

TopAreHighestScored ==
    ReportReturned =>
        \A i \in 1..Len(argument) :
            ScoreCount(result.top_opportunities, argument[i].opportunity_score)
                = ScoreCount(HighestScored(argument), argument[i].opportunity_score)

QuickWinsAreLowEffortHighScore ==
    ReportReturned =>
        /\ Len(result.quick_wins) <= 5
        /\ \A i \in 1..Len(result.quick_wins) :
              /\ result.quick_wins[i].estimated_effort = "low"
              /\ RLe(Rat(6, 10), result.quick_wins[i].opportunity_score)

\* C16 as stated: top_opportunities of the report lists the (at most 10)
\* gaps with the highest opportunity_score among the gaps passed in, in
\* whatever order they are passed, and quick_wins lists at most 5 gaps, each
\* of low effort and with opportunity_score >= 0.6
C16_TopOpportunitiesAndQuickWins ==
    TopAreHighestScored /\ QuickWinsAreLowEffortHighScore

\* C16, the part that holds: quick_wins lists at most 5 gaps, each of low
\* effort and with opportunity_score >= 0.6
C16_QuickWins == QuickWinsAreLowEffortHighScore

\* more than 5 gaps qualify as quick wins
C16_QuickWinsWitness ==
    /\ ReportReturned
    /\ Len(QuickWinsUncut(argument)) > 5
    /\ Len(result.quick_wins) = 5

\* ------------------------------------------------------------------------
\* C18
\* ------------------------------------------------------------------------
InsightsReturned == entry = "generate_pattern_insights" /\ pc = "done"

\* the domain_frequency patterns of the argument with strength >= s
DomainFrequencyFrom(s) ==
    SelectIdx(argument,
              [i \in 1..Len(argument) |->
                  /\ argument[i].pattern_type = "domain_frequency"
                  /\ RLe(s, argument[i].strength)])

\* C18: high_strength_patterns is the input patterns with strength >= 0.8;
\* each domain_frequency pattern with strength >= 0.7 yields exactly one
\* content_partnership recommendation, of priority high iff its strength is
\* >= 0.8; each domain_frequency pattern with strength >= 0.8 also yields
\* exactly one competitor_dominance threat; so there are never more threats
\* than recommendations
C18_InsightsFromDomainFrequencyPatterns ==
    InsightsReturned =>
        LET partners == DomainFrequencyFrom(Rat(7, 10))
            dominant == DomainFrequencyFrom(Rat(8, 10))
        IN /\ result.high_strength_patterns =
                  SelectIdx(argument, [i \in 1..Len(argument) |->
                                          RLe(Rat(8, 10), argument[i].strength)])
           /\ Len(result.recommendations) = Len(partners)
           /\ \A i \in 1..Len(partners) :
                 /\ result.recommendations[i].type = "content_partnership"
                 /\ result.recommendations[i].priority = "high"
                        <=> RLe(Rat(8, 10), partners[i].strength)
           /\ Len(result.threats) = Len(dominant)
           /\ \A i \in 1..Len(result.threats) :
                 result.threats[i].type = "competitor_dominance"
           /\ Len(result.threats) <= Len(result.recommendations)

\* a domain_frequency pattern of strength 0.7 and one of strength 0.8: two
\* recommendations of different priority and one threat
C18_Witness ==
    /\ InsightsReturned
    /\ Len(result.recommendations) = 2
    /\ result.recommendations[1].priority # result.recommendations[2].priority
    /\ Len(result.threats) = 1
    /\ Len(result.high_strength_patterns) = 1

\* ------------------------------------------------------------------------
\* C19
\* ------------------------------------------------------------------------
NormalizeReturned == entry = "normalize_citation" /\ pc = "done"

\* C19 as stated: every dictionary normalize_citation returns satisfies the
\* CitationRecord invariant, whatever the raw input: prominence_score is in
\* [0,1], position is >= 0, and source_domain is lower-case or empty
C19_NormalizedRecordInvariant ==
    NormalizeReturned =>
        /\ 0 <= result.prominence_score /\ result.prominence_score <= 100
        /\ result.position >= 0
        /\ result.source_domain = Lower(result.source_domain)

\* C19, the part that holds: prominence_score of the result is in [0,1]
C19_ProminenceClamped ==
    NormalizeReturned =>
        0 <= result.prominence_score /\ result.prominence_score <= 100

\* a raw prominence_score above 1 was clamped
C19_ProminenceWitness ==
    /\ NormalizeReturned
    /\ "prominence_score" \in DOMAIN argument.citation_data
    /\ argument.citation_data.prominence_score > 100
    /\ result.prominence_score = 100

\* ------------------------------------------------------------------------
\* C20
\* ------------------------------------------------------------------------
\* the parameters a query string carries, blank-valued and value-less ones
\* included, as decoded <<key, value>> pairs
QueryParameters(query) ==
    LET all == SplitOn(query, "&")
        parts == SelectIdx(all, [i \in 1..Len(all) |-> all[i] # ""])
    IN {LET eq == IndexIn(parts[i], "=", 1)
        IN IF eq = 0 THEN <<Unquote(parts[i]), "">>
           ELSE <<Unquote(Before(parts[i], eq)), Unquote(From(parts[i], eq + 1))>> :
          i \in 1..Len(parts)}

RawUrl == Get(argument.citation_data, "url", "")

CarriesTracking(url) ==
    \E kv \in QueryParameters(UrlParse(url).query) : kv[1] \in TrackingParams

NoTrackingKeyLeft ==
    NormalizeReturned /\ CarriesTracking(RawUrl) => ~CarriesTracking(result.url)

OtherParametersKept ==
    NormalizeReturned /\ CarriesTracking(RawUrl) =>
        \A kv \in QueryParameters(UrlParse(RawUrl).query) :
            kv[1] \notin TrackingParams
                => kv \in QueryParameters(UrlParse(result.url).query)

\* scheme (compared without regard to case), host, path and fragment
OtherPartsKept ==
    NormalizeReturned /\ CarriesTracking(RawUrl) =>
        LET raw == UrlParse(RawUrl)
            clean == UrlParse(result.url)
        IN /\ clean.scheme = raw.scheme
           /\ clean.netloc = raw.netloc
           /\ clean.path = raw.path
           /\ clean.fragment = raw.fragment

\* C20 as stated: for a citation whose url carries tracking query
\* parameters, the url of the normalize_citation result contains none of
\* the tracking keys, and every other query parameter and the scheme, host,
\* path and fragment are preserved
C20_TrackingRemovedRestPreserved ==
    NoTrackingKeyLeft /\ OtherParametersKept /\ OtherPartsKept

\* C20, first half as stated: no tracking key is left in the result url
C20_NoTrackingKeyLeft == NoTrackingKeyLeft

\* C20, second half as stated: the other parameters are preserved
C20_OtherParametersKept == OtherParametersKept

\* C20, the part that holds: scheme, host, path and fragment are preserved
C20_OtherPartsKept == OtherPartsKept

\* a url with a tracking parameter, another parameter and a fragment was
\* cleaned: the tracking key is gone, the other parameter is kept
C20_Witness ==
    /\ NormalizeReturned
    /\ RawUrl = "https://a.com/p?utm_source=x&id=7#top"
    /\ result.url = "https://a.com/p?id=7#top"

\* ------------------------------------------------------------------------
\* C21
\* ------------------------------------------------------------------------
\* the position sub-scan has returned, on records that carry a position
PositionScanReturned ==
    /\ entry = "analyze_citation_patterns"
    /\ citations # <<>>
    /\ "position" \in columns
    /\ pc \notin {"start", "domain_patterns", "content_type_patterns",
                  "position_patterns", "raised"}

\* the indices of the records with position <= 3
TopRecords == {i \in 1..Len(citations) : citations[i].position <= 3}

\* the (source_domain, citation_type) groups with >= 2 records of position <= 3
ConsistentGroups ==
    {k \in {<<citations[i].source_domain, citations[i].citation_type>> :
               i \in TopRecords} :
        Cardinality({i \in TopRecords :
            <<citations[i].source_domain, citations[i].citation_type>> = k}) >= 2}

\* the mean position of the top records of a group
GroupMeanPosition(k) ==
    LET members == SetToSeq({i \in TopRecords :
            <<citations[i].source_domain, citations[i].citation_type>> = k})
    IN Mean([j \in 1..Len(members) |-> citations[members[j]].position])

\* 1.0 - (mean over the qualifying groups of the group's mean position) / 10
ExpectedPositionStrength ==
    LET groups == SetToSeq(ConsistentGroups)
    IN RSub(ROne, RMul(RMean([j \in 1..Len(groups) |-> GroupMeanPosition(groups[j])]),
                       Rat(1, 10)))

OnePositionPattern ==
    LET found == PatternsOfType(patterns, "position_consistency")
    IN /\ Cardinality(found) = 1
       /\ \A i \in found : patterns[i].strength = ExpectedPositionStrength

\* C21 as stated: whenever some (source_domain, citation_type) group holds
\* at least 2 records with position <= 3, the position sub-scan emits one
\* position_consistency pattern of strength 1.0 - (mean of the qualifying
\* groups' mean positions) / 10, also when those 2 records are the only
\* records with position <= 3
C21_PositionConsistencyPattern ==
    PositionScanReturned /\ ConsistentGroups # {} => OnePositionPattern

\* C21, the part that holds: the same when at least min_pattern_frequency
\* (3) records have position <= 3
C21_WithThreeTopRecords ==
    /\ PositionScanReturned
    /\ ConsistentGroups # {}
    /\ Cardinality(TopRecords) >= MinPatternFrequency
    => OnePositionPattern

\* three top records, two of them in one group: the pattern is emitted
C21_ThreeTopRecordsWitness ==
    /\ PositionScanReturned
    /\ Cardinality(TopRecords) = 3
    /\ Cardinality(ConsistentGroups) = 1
    /\ PatternsOfType(patterns, "position_consistency") # {}

\* ------------------------------------------------------------------------
\* C22
\* ------------------------------------------------------------------------
\* the competitor finder has run and the scoring pass has not
CompetitorFinderReturned ==
    /\ entry = "identify_content_gaps"
    /\ {"query", "source_domain"} \subseteq columns
    /\ pc \in {"topic_cluster_gaps", "question_variation_gaps",
               "score_and_prioritize"}

\* the competitor share of the records of a query
ShareOf(query) ==
    LET records == {i \in DOMAIN citations : citations[i].query = query}
        competitors == {Lower(competitor_domains[k]) : k \in DOMAIN competitor_domains}
        theirs == {i \in records : citations[i].source_domain \in competitors}
    IN Rat(Cardinality(theirs), Cardinality(records))

CompetitorGaps(gs) == {i \in DOMAIN gs : gs[i].gap_type = "competitor_dominated"}

\* C22 as stated: a competitor_dominated gap the finder emits for share s has
\* priority low if s > 0.8 and medium otherwise, potential_impact medium if
\* s > 0.8 and high otherwise (so high at s = 0.8), and estimated_effort high
C22_CompetitorGapFields ==
    CompetitorFinderReturned =>
        \A i \in CompetitorGaps(gaps) :
            LET s == ShareOf(gaps[i].query_text)
            IN /\ gaps[i].priority = (IF RLt(Rat(8, 10), s) THEN "low" ELSE "medium")
               /\ gaps[i].potential_impact =
                      (IF RLt(Rat(8, 10), s) THEN "medium" ELSE "high")
               /\ gaps[i].estimated_effort = "high"

\* C22, the part that holds: the same for every share other than 0.8, and
\* the priority and the effort at 0.8 as well
C22_CompetitorGapFieldsOffThreshold ==
    CompetitorFinderReturned =>
        \A i \in CompetitorGaps(gaps) :
            LET s == ShareOf(gaps[i].query_text)
            IN /\ gaps[i].priority = (IF RLt(Rat(8, 10), s) THEN "low" ELSE "medium")
               /\ s # Rat(8, 10) =>
                      gaps[i].potential_impact =
                          (IF RLt(Rat(8, 10), s) THEN "medium" ELSE "high")
               /\ gaps[i].estimated_effort = "high"

\* a gap at share 1 has been emitted, with priority low
C22_OffThresholdWitness ==
    /\ CompetitorFinderReturned
    /\ \E i \in CompetitorGaps(gaps) :
          ShareOf(gaps[i].query_text) = ROne /\ gaps[i].priority = "low"

\* a gap at share 4/5 has been emitted
C22_ThresholdWitness ==
    /\ CompetitorFinderReturned
    /\ \E i \in CompetitorGaps(gaps) : ShareOf(gaps[i].query_text) = Rat(8, 10)

\* ------------------------------------------------------------------------
\* C23
\* ------------------------------------------------------------------------
\* _find_no_citation_gaps has just returned
NoCitationFinderReturned ==
    /\ entry = "identify_content_gaps"
    /\ "query" \in columns
    /\ pc = "weak_citation_gaps"

\* the number of records of a query
RecordCount(query) ==
    Cardinality({i \in DOMAIN citations : citations[i].query = query})

\* the tracked entries with at most 2 records, in tracked order
SparselyCited ==
    SelectIdx(tracked_queries,
              [i \in 1..Len(tracked_queries) |-> RecordCount(tracked_queries[i]) <= 2])

C23_BothKindsWitness ==
    /\ NoCitationFinderReturned
    /\ \E i, j \in 1..Len(gaps) :
          /\ gaps[i].gap_type = "no_citations"
          /\ gaps[j].gap_type = "weak_citations"

\* ------------------------------------------------------------------------
\* C24
\* ------------------------------------------------------------------------
MatchesHighValue(gap) ==
    \E word \in {"how to", "best", "guide", "tutorial"} :
        Contains(Lower(gap.query_text), word)

MatchesCommercial(gap) ==
    \E word \in {"buy", "price", "cost", "review", "comparison"} :
        Contains(Lower(gap.query_text), word)

\* the score the scoring pass leaves a gap with
BoostedScore(gap) ==
    LET s == gap.opportunity_score
    IN IF MatchesHighValue(gap) /\ MatchesCommercial(gap)
       THEN RMin(ROne, RAdd(RMin(ROne, RAdd(s, Rat(1, 10))), Rat(15, 100)))
       ELSE IF MatchesHighValue(gap) THEN RMin(ROne, RAdd(s, Rat(1, 10)))
       ELSE IF MatchesCommercial(gap) THEN RMin(ROne, RAdd(s, Rat(15, 100)))
       ELSE s

\* a gap as the finder made it, with the score and the impact expected of
\* the scoring pass
ExpectedAfterScoring(gap) ==
    <<gap.gap_id, gap.query_text, gap.gap_type, BoostedScore(gap),
      IF MatchesCommercial(gap) THEN "high" ELSE gap.potential_impact>>

AfterScoring(gap) ==
    <<gap.gap_id, gap.query_text, gap.gap_type, gap.opportunity_score,
      gap.potential_impact>>

\* the scoring pass turns the list gaps into a list of as many gaps, each
\* gap of gaps occurring in it as often, with the expected score and impact
ScoringAsExpected ==
    pc = "score_and_prioritize" /\ pc' = "done" =>
        LET expected == [k \in DOMAIN gaps |-> ExpectedAfterScoring(gaps[k])]
            after == [k \in DOMAIN gaps' |-> AfterScoring(gaps'[k])]
        IN /\ Len(after) = Len(expected)
           /\ \A x \in Range(expected) :
                 Cardinality({k \in DOMAIN expected : expected[k] = x})
                     = Cardinality({k \in DOMAIN after : after[k] = x})

\* C24: in the scoring pass the two keyword boosts are cumulative and each
\* is clamped: a gap matching both word sets ends with
\* min(1, min(1, s + 0.1) + 0.15), a gap matching one set gets that boost
\* only, a gap matching neither keeps its score; potential_impact becomes
\* high exactly for the gaps matching the second set and is otherwise kept
C24_CumulativeClampedBoosts == [][ScoringAsExpected]_vars

\* a returned gap whose query matches both sets went from 0.6 to 0.85, and
\* another, matching neither, kept 0.8
C24_Witness ==
    /\ GapsReturned
    /\ \E i \in DOMAIN result :
          /\ MatchesHighValue(result[i]) /\ MatchesCommercial(result[i])
          /\ result[i].gap_type = "topic_cluster_gap"
          /\ result[i].opportunity_score = Rat(85, 100)
    /\ \E i \in DOMAIN result :
          /\ ~MatchesHighValue(result[i]) /\ ~MatchesCommercial(result[i])
          /\ result[i].gap_type = "no_citations"
          /\ result[i].opportunity_score = Rat(8, 10)


\* ------------------------------------------------------------------------
\* C25
\* ------------------------------------------------------------------------
\* _find_question_variation_gaps has just returned
VariationFinderReturned ==
    entry = "identify_content_gaps" /\ pc = "score_and_prioritize"

\* positions of the question_variation gaps in a list
VariationGaps(gs) == {i \in DOMAIN gs : gs[i].gap_type = "question_variation"}

\* positions of the tracked entries whose topic key is topic
EntriesOfTopic(topic) ==
    {i \in DOMAIN tracked_queries : TopicOf(tracked_queries[i]) = topic}

TopicKeys == {TopicOf(tracked_queries[i]) : i \in DOMAIN tracked_queries} \ {""}

TypesOfTopic(topic) ==
    {QuestionType(Lower(tracked_queries[i])) : i \in EntriesOfTopic(topic)}

\* the citation records of the entries of a topic (none can be told apart
\* when the records carry no query key)
TotalOfTopic(topic) ==
    IF "query" \in columns
    THEN SumSeq([i \in DOMAIN tracked_queries |->
                    IF i \in EntriesOfTopic(topic)
                    THEN RecordCount(tracked_queries[i]) ELSE 0])
    ELSE 0

SuggestedTypes == {"what_is", "how_to", "best"}

\* the gaps emitted for a topic and a question type
GapsFor(topic, qtype) ==
    {i \in VariationGaps(gaps) :
        gaps[i].gap_id = <<"question_variation", qtype, Hash(topic)>>}

\* C25: a topic key whose tracked queries all have one question type T gets
\* exactly one question_variation gap for each type of {what_is, how_to,
\* best} other than T, with opportunity 0.5 + 0.03*min(total,10),
\* difficulty 0.3 and volume max(100, 50*total), total being the citation
\* records of the topic's queries; a topic with 2 or more types gets none,
\* and the finder emits no other question_variation gap
C25_QuestionVariationGaps ==
    VariationFinderReturned =>
        /\ \A topic \in TopicKeys :
              IF Cardinality(TypesOfTopic(topic)) = 1
              THEN LET total == TotalOfTopic(topic)
                   IN /\ \A qtype \in SuggestedTypes \ TypesOfTopic(topic) :
                            /\ Cardinality(GapsFor(topic, qtype)) = 1
                            /\ \A i \in GapsFor(topic, qtype) :
                                  /\ gaps[i].opportunity_score
                                         = Rat(50 + 3 * Min(total, 10), 100)
                                  /\ gaps[i].difficulty_score = Rat(3, 10)
                                  /\ gaps[i].search_volume_estimate
                                         = Max(100, 50 * total)
                      /\ \A qtype \in TypesOfTopic(topic) : GapsFor(topic, qtype) = {}
              ELSE \A qtype \in SuggestedTypes : GapsFor(topic, qtype) = {}
        /\ \A i \in VariationGaps(gaps) :
              \E topic \in TopicKeys : \E qtype \in SuggestedTypes :
                  i \in GapsFor(topic, qtype)

\* a topic of one type outside the suggested three got 3 gaps scored above
\* the base, and a topic of a suggested type got 2
C25_Witness ==
    /\ VariationFinderReturned
    /\ \E topic \in TopicKeys :
          /\ Cardinality(TypesOfTopic(topic)) = 1
          /\ TypesOfTopic(topic) \cap SuggestedTypes = {}
          /\ TotalOfTopic(topic) >= 1
          /\ Cardinality({i \in VariationGaps(gaps) : gaps[i].gap_id[3] = Hash(topic)}) = 3
    /\ \E topic \in TopicKeys :
          /\ Cardinality(TypesOfTopic(topic)) = 1
          /\ TypesOfTopic(topic) \subseteq SuggestedTypes
          /\ Cardinality({i \in VariationGaps(gaps) : gaps[i].gap_id[3] = Hash(topic)}) = 2

\* a topic asked in 2 question types got no gap
C25_MixedTopicWitness ==
    /\ VariationFinderReturned
    /\ \E topic \in TopicKeys :
          /\ Cardinality(TypesOfTopic(topic)) >= 2
          /\ \A i \in VariationGaps(gaps) : gaps[i].gap_id[3] # Hash(topic)


\* ------------------------------------------------------------------------
\* C26
\* ------------------------------------------------------------------------
\* _find_topic_cluster_gaps has just returned
ClusterFinderReturned ==
    entry = "identify_content_gaps" /\ pc = "question_variation_gaps"

\* fit_predict has assigned the tracked queries to clusters
ClustersAssigned ==
    /\ Len(tracked_queries) >= 10
    /\ ~VectorizerRaises(tracked_queries)
    /\ ~seeded_labels.raise

\* positions of the topic_cluster_gap gaps in a list
TopicClusterGaps(gs) == {i \in DOMAIN gs : gs[i].gap_type = "topic_cluster_gap"}

\* the records of a tracked query that the finder counts
CitationCount(query) == IF "query" \in columns THEN RecordCount(query) ELSE 0

\* positions of the tracked entries in the cluster of entry i
ClusterOf(i) ==
    {j \in DOMAIN tracked_queries :
        seeded_labels.label[tracked_queries[j]] = seeded_labels.label[tracked_queries[i]]}

ClusterTotal(i) ==
    SumSeq([j \in DOMAIN tracked_queries |->
               IF j \in ClusterOf(i) THEN CitationCount(tracked_queries[j]) ELSE 0])

\* count < 3 and count < 0.5 * (total / size), in integers
UnderRepresented(i) ==
    /\ CitationCount(tracked_queries[i]) < 3
    /\ 2 * Cardinality(ClusterOf(i)) * CitationCount(tracked_queries[i]) < ClusterTotal(i)

\* C26: with fewer than 10 tracked queries the topic-cluster finder emits
\* no gap; with 10 or more and any cluster assignment, a tracked query is
\* emitted as a topic_cluster_gap (opportunity 0.6, difficulty 0.4) exactly
\* when its citation count is below 3 and below half the mean count of its
\* cluster, so never from a cluster without citations nor when alone in
\* its cluster
C26_TopicClusterGaps ==
    ClusterFinderReturned =>
        /\ Len(tracked_queries) < 10 => TopicClusterGaps(gaps) = {}
        /\ ClustersAssigned =>
              /\ \A i \in DOMAIN tracked_queries :
                    UnderRepresented(i) <=>
                        \E k \in TopicClusterGaps(gaps) :
                            gaps[k].query_text = tracked_queries[i]
              /\ Cardinality(TopicClusterGaps(gaps))
                     = Cardinality({i \in DOMAIN tracked_queries : UnderRepresented(i)})
              /\ \A k \in TopicClusterGaps(gaps) :
                    /\ gaps[k].opportunity_score = Rat(6, 10)
                    /\ gaps[k].difficulty_score = Rat(4, 10)
              /\ \A i \in DOMAIN tracked_queries :
                    (ClusterTotal(i) = 0 \/ ClusterOf(i) = {i}) =>
                        \A k \in TopicClusterGaps(gaps) :
                            gaps[k].query_text # tracked_queries[i]

\* ten queries were clustered: one is emitted, one with a count below 3 is
\* not, one is alone in its cluster
C26_Witness ==
    /\ ClusterFinderReturned
    /\ ClustersAssigned
    /\ \E i, j, a \in DOMAIN tracked_queries :
          /\ UnderRepresented(i)
          /\ \E k \in TopicClusterGaps(gaps) : gaps[k].query_text = tracked_queries[i]
          /\ CitationCount(tracked_queries[j]) < 3
          /\ ClusterTotal(j) > 0
          /\ ~UnderRepresented(j)
          /\ ClusterOf(a) = {a}
          /\ CitationCount(tracked_queries[a]) = 0

\* ten queries were clustered and one cluster of 2 or more has no citation
C26_EmptyClusterWitness ==
    /\ ClusterFinderReturned
    /\ ClustersAssigned
    /\ \E i \in DOMAIN tracked_queries :
          /\ Cardinality(ClusterOf(i)) >= 2
          /\ ClusterTotal(i) = 0
    /\ TopicClusterGaps(gaps) # {}

\* fewer than 10 queries were tracked and records exist that would mark one
\* of them as under-represented
C26_FewQueriesWitness ==
    /\ ClusterFinderReturned
    /\ Len(tracked_queries) = 2
    /\ RecordCount(tracked_queries[1]) = 0
    /\ RecordCount(tracked_queries[2]) >= 1
    /\ TopicClusterGaps(gaps) = {}


\* ------------------------------------------------------------------------
\* C27
\* ------------------------------------------------------------------------
\* no tracked query is listed twice
TrackedDistinct ==
    Cardinality(Range(tracked_queries)) = Len(tracked_queries)

\* the mean prominence of the records of a query, in hundredths, is below 50
MeanBelowHalf(query) ==
    LET idx == {i \in DOMAIN citations : citations[i].query = query}
    IN SumSeq([i \in DOMAIN citations |->
                  IF i \in idx THEN citations[i].prominence_score ELSE 0])
           < 50 * Cardinality(idx)

\* C27: for distinct tracked queries, the list identify_content_gaps
\* returns holds at most one gap per (query_text, gap_type) pair
C27_OneGapPerQueryAndType ==
    (GapsReturned /\ TrackedDistinct) =>
        \A i, j \in DOMAIN result :
            (/\ result[i].query_text = result[j].query_text
             /\ result[i].gap_type = result[j].gap_type) => i = j

\* a tracked query with exactly 2 records of mean prominence below 0.5 is
\* returned in two weak_citations gaps, one of each finder
C27_TwoWeakCitationsGaps ==
    /\ GapsReturned
    /\ TrackedDistinct
    /\ columns = AllColumns
    /\ \E q \in Range(tracked_queries) :
          /\ RecordCount(q) = 2
          /\ MeanBelowHalf(q)
          /\ \E i, j \in DOMAIN result :
                /\ i # j
                /\ result[i].query_text = q /\ result[j].query_text = q
                /\ result[i].gap_type = "weak_citations"
                /\ result[j].gap_type = "weak_citations"
                /\ result[i].gap_id[1] = "weak_citations"
                /\ result[j].gap_id[1] = "low_prominence"


\* ------------------------------------------------------------------------
\* C28
\* ------------------------------------------------------------------------
\* the query text of a gap holds no word of either boost list
Unboosted(gap) == ~MatchesHighValue(gap) /\ ~MatchesCommercial(gap)

\* positions of the gaps _find_no_citation_gaps creates with score 0.7
CreatedWeakGaps(gs) ==
    {i \in DOMAIN gs : /\ gs[i].gap_type = "weak_citations"
                       /\ gs[i].gap_id[1] = "weak_citations"}

\* C28: in the list identify_content_gaps returns, every unboosted
\* competitor_dominated gap has the score 0.5 - 0.2*share, within
\* [0.3, 0.38], and priority low whatever the finder assigned, and every
\* unboosted weak_citations gap created with score 0.7 and priority high
\* has priority medium
C28_FinderPrioritiesOverwritten ==
    GapsReturned =>
        /\ \A i \in CompetitorGaps(result) :
              Unboosted(result[i]) =>
                  /\ result[i].opportunity_score
                         = RSub(Rat(5, 10), RMul(ShareOf(result[i].query_text), Rat(2, 10)))
                  /\ RLe(Rat(3, 10), result[i].opportunity_score)
                  /\ RLe(result[i].opportunity_score, Rat(38, 100))
                  /\ result[i].priority = "low"
        /\ \A i \in CreatedWeakGaps(result) :
              Unboosted(result[i]) =>
                  /\ result[i].opportunity_score = Rat(7, 10)
                  /\ result[i].priority = "medium"

\* the finder has assigned medium to an unboosted competitor_dominated gap
\* of share at most 0.8
C28_FinderAssignedMediumWitness ==
    /\ VariationFinderReturned
    /\ \E i \in CompetitorGaps(gaps) :
          /\ Unboosted(gaps[i])
          /\ RLe(ShareOf(gaps[i].query_text), Rat(8, 10))
          /\ gaps[i].priority = "medium"

\* the returned list holds an unboosted competitor_dominated gap of share at
\* most 0.8, with priority low
C28_Witness ==
    /\ GapsReturned
    /\ \E i \in CompetitorGaps(result) :
          /\ Unboosted(result[i])
          /\ RLe(ShareOf(result[i].query_text), Rat(8, 10))
          /\ result[i].priority = "low"

\* the finder has assigned high to an unboosted weak_citations gap
C28_FinderAssignedHighWitness ==
    /\ VariationFinderReturned
    /\ \E i \in CreatedWeakGaps(gaps) :
          Unboosted(gaps[i]) /\ gaps[i].priority = "high"

\* the returned list holds an unboosted created weak_citations gap, with
\* priority medium
C28_WeakGapWitness ==
    /\ GapsReturned
    /\ \E i \in CreatedWeakGaps(result) :
          Unboosted(result[i]) /\ result[i].priority = "medium"


\* ------------------------------------------------------------------------
\* C29
\* ------------------------------------------------------------------------
SerpReturned == entry = "google_collect_citations" /\ pc = "done"

\* C29: every citation record GoogleSERPCollector's extractors produce has
\* prominence_score within [0, 1], whatever the shape of the SERP result
C29_SerpProminenceInUnitInterval ==
    SerpReturned =>
        \A i \in DOMAIN result :
            result[i].prominence_score >= 0 /\ result[i].prominence_score <= 100

\* the SERP result has at most 7 additional knowledge graph sources and no
\* organic result with a reported position below -4 (with 8 sources the
\* exact score of the last one is 0, which the rounded product 7 * 0.1 of
\* the doubles turns into -1.1e-16)
OrdinaryShape ==
    /\ ("knowledge_graph" \in argument.keys /\ "sources" \in argument.kg_keys)
           => argument.kg_sources <= 7
    /\ "organic_results" \in argument.keys =>
           \A k \in DOMAIN argument.organic_results :
               argument.organic_results[k].has_position
                   => argument.organic_results[k].position >= 0 - 4

\* the records produced from a SERP result of ordinary shape have
\* prominence_score within [0, 1]
C29_InUnitIntervalForOrdinaryShapes ==
    (SerpReturned /\ OrdinaryShape) =>
        \A i \in DOMAIN result :
            result[i].prominence_score >= 0 /\ result[i].prominence_score <= 100

\* the ninth additional knowledge graph source has been given a negative score
C29_NegativeScoreWitness ==
    /\ SerpReturned
    /\ argument.kg_sources = 9
    /\ \E i \in DOMAIN result :
          /\ result[i].citation_type = "knowledge_panel_source"
          /\ result[i].position = 10
          /\ result[i].prominence_score = 0 - 10

\* an organic result reported at position -6 has been given the score 1.2
C29_ScoreAboveOneWitness ==
    /\ SerpReturned
    /\ \E i \in DOMAIN result :
          /\ result[i].citation_type = "organic"
          /\ result[i].position = 0 - 6
          /\ result[i].prominence_score = 120

\* a knowledge graph with 7 additional sources has been read: the last one
\* has the score 0.1
C29_OrdinaryShapeWitness ==
    /\ SerpReturned
    /\ OrdinaryShape
    /\ argument.kg_sources = 7
    /\ \E i \in DOMAIN result :
          /\ result[i].citation_type = "knowledge_panel_source"
          /\ result[i].prominence_score = 10


\* ------------------------------------------------------------------------
\* C30
\* ------------------------------------------------------------------------
PerplexityCalled == entry = "perplexity_collect_citations"

\* C30: PerplexityCollector.collect_citations terminates whatever the API
\* responds, because the nesting of the calls it makes for related questions
\* is bounded in depth: the calls in progress never reach the depth
\* MaxDepth, whatever value MaxDepth is given
C30_RecursionDepthBounded ==
    PerplexityCalled => Len(frames) < MaxDepth

\* every response so far carried related questions: the calls are nested
\* MaxDepth deep, none has returned, and the innermost one has a related
\* question to ask
C30_EveryResponseHasQuestionsWitness ==
    /\ PerplexityCalled
    /\ pc = "extract"
    /\ Len(frames) = MaxDepth
    /\ \A k \in DOMAIN frames : Len(frames[k].pending) = 2
    /\ frames[1].query = argument
    /\ \A k \in 2..Len(frames) : frames[k].query = Head(frames[k - 1].pending)

\* the responses to the related questions carried no further questions: the
\* call has returned its own citation and those of two related questions
C30_ReturnedWitness ==
    /\ PerplexityCalled
    /\ pc = "done"
    /\ Len(result) = 3
    /\ result[1].citation_type = "direct_answer"
    /\ result[2].citation_type = "related_question"
    /\ result[2].related_question = "why seo"
    /\ result[3].related_question = "seo audit"

====
